---- MODULE Spec2Model ----
(***************************************************************************)
(* A model of the AI Interview Coaching IVR: the streaming voice-synthesis *)
(* client with its file cache (murfaiService), the TwiML prompt renderer   *)
(* (twilioService) and the telephony webhook handlers with their detached  *)
(* background tasks (routes/webhooks, routes/sessions, models/Session).    *)
(***************************************************************************)
EXTENDS Integers, Sequences, FiniteSets, TLC

VARIABLES
    \* ---- murfaiService: one textToSpeech call at a time ----
    apiKey,             \* this.apiKey is configured (MURF_API_KEY)
    files,              \* temp/audio: file name <<cacheKey, ext>> -> [size, old]
    req,                \* the options of the textToSpeech call in progress
    tpc,                \* where textToSpeech is: idle / ws / done
    result,             \* what the last finished textToSpeech returned or threw
    ws,                 \* the WebSocket: none / connecting / open / closing / closed
    audioChunks,        \* generateAudioViaWebSocket: lengths of the pushed buffers
    firstChunk,         \* generateAudioViaWebSocket: let firstChunk
    receivedData,       \* generateAudioViaWebSocket: let receivedData
    connectionTimeout,  \* generateAudioViaWebSocket: the 10 s timer is armed
    promise,            \* the promise generateAudioViaWebSocket returned
    frames,             \* frames the backend has sent on this connection
    nCalls,             \* textToSpeech calls started so far
    lastOk,             \* the last successful call since the last sweep
    batch,              \* the batchTextToSpeech call in progress and its requests
    io,                 \* temp/audio as the file system has it: open writes, lookups
    \* ---- twilioService: the Prompt Renderer ----
    useMurfAI,          \* this.useMurfAI (USE_MURFAI_TTS !== 'false')
    render,             \* the generate...TwiML call in progress and its options
    twiml,              \* the document the Prompt Renderer returned last
    \* ---- routes/webhooks, routes/sessions, models/Session ----
    callSid,            \* the CallSid of the phone call
    channel,            \* how the session is driven: by phone or by the REST API
    session,            \* the sessions row: status, sessionType, questions, responses
    h,                  \* the webhook request in flight and where its handler is
    tasks,              \* the detached background tasks that have not finished
    sent,               \* the last response a webhook handler sent
    next,               \* the URLs the telephony transport may request next
    transcribing,       \* a transcription callback of the last recording is due
    rest,               \* the REST request in flight
    ended,              \* who completed the session, and with how many responses
    logged              \* the log of the background answer processing

\* The configuration, and the file operations in progress, which only the
\* specification of the cache files moves.
cfgVars == <<apiKey, useMurfAI, io>>
wsVars == <<ws, audioChunks, firstChunk, receivedData, connectionTimeout, promise, frames>>
callVars == <<req, tpc, result, nCalls>>
renderVars == <<render, twiml>>
ttsVars == <<cfgVars, wsVars, callVars, renderVars, files, lastOk, batch>>
flowVars == <<callSid, channel, session, h, tasks, sent, next, transcribing, rest, ended,
              logged>>
otherVars == <<cfgVars, flowVars, batch>>

vars == <<ttsVars, flowVars>>

\* ------------------------------------------------------------------ bounds
MaxCalls == 2
MaxFrames == 1
MaxTasks == 1
MaxResponses == 6
MaxBatch == 4
MaxSaves == 3
MaxDays == 3

\* -------------------------------------------------------- program constants
WavHeader == 44
MockInterviewCap == 5
CoachingCap == 3
RestQuestionCount == 5

None == "none"
NoFile == <<>>
Null == <<"null">>
Undefined == <<"undefined">>
NullStr == "null"
Url(path, sid) == [path |-> path, callSid |-> sid]
NullUrl == Url(NullStr, NullStr)
NoLast == [ok |-> FALSE, key |-> <<>>, url |-> NoFile, useCache |-> FALSE]
\* No getCachedAudio call; no file operation in progress and none finished.
NoLookup == [pc |-> "idle", key |-> <<>>, i |-> 0, hit |-> FALSE, name |-> NoFile, bytes |-> 0]
\* No clearCache call. The day it is, and the day each file was last written.
NoSweep == [pc |-> "idle", olderThanDays |-> 0, deletedCount |-> 0, before |-> <<>>,
            written |-> <<>>]
NoIo == [writes |-> {}, started |-> 0, finished |-> {}, lookup |-> NoLookup, seen |-> {},
         now |-> 0, mtime |-> <<>>, sweep |-> NoSweep]
\* No batchTextToSpeech call.
NoBatch == [pc |-> "idle", by |-> None, texts |-> <<>>, useCache |-> TRUE, i |-> 0,
            slots |-> <<>>, results |-> <<>>, outcomes |-> <<>>]

\* ------------------------------------------------------------------ inputs
Texts == {<<"a">>, <<"b">>}
VoiceIds == {Null}
Pitches == {0}
Speeds == {0}
Formats == {"WAV", "MP3"}
ChunkLens == {44, 46}
Actions == {NullUrl, Url("/webhook/response", NullStr)}
TimeoutActions == {NullUrl, Url("/webhook/response-timeout", NullStr)}
GatherTimeouts == {1, 5}

\* A frame of the backend: JSON with an optional audio payload (its decoded
\* length) and a final flag, or text that is not JSON.
Frames ==
    [json : {TRUE}, audio : ChunkLens \cup {-1}, final : BOOLEAN]
        \cup {[json |-> FALSE, audio |-> -1, final |-> FALSE]}

\* ----------------------------------------------------------- call-flow data
CallSids == {"CA1", "CA2"}

\* No generate...TwiML call, no document.
NoRender == [fn |-> None, message |-> <<>>, action |-> NullUrl, timeout |-> 5,
             timeoutAction |-> NullUrl]
NoTwiml == [outcome |-> None, call |-> NoRender, doc |-> <<>>]

\* scores is scores.overall of the row (0 for none); overalls lists, for each
\* stored response, the overall score of the analysis it was stored with.
NoSession == [status |-> None, sessionType |-> None, callSid |-> NullStr,
              questions |-> <<>>, responses |-> <<>>, scores |-> 0, overalls |-> <<>>]
NoInst == [questions |-> <<>>, responses |-> <<>>, overalls |-> <<>>]
Idle == [route |-> None, pc |-> "idle", inst |-> NoInst, timer |-> FALSE]
NoSent == [route |-> None, via |-> None, call |-> NoRender, doc |-> <<>>]
NoRest == [pc |-> "idle", inst |-> NoInst, questionId |-> 0, refused |-> 0]
NoEnded == [by |-> None, questions |-> 0, responses |-> 0, score |-> 0]
\* The log of the background answer processing: the last line processResponseAsync
\* or the functions it calls have logged, when the log is observed at all. When
\* the turns of the call are observed: the 'Session state:' line of the last
\* /webhook/continue-interview request, the fallback question last spoken with
\* the number of responses of that request, and the number of recordings the
\* caller has submitted.
NoState == [seen |-> FALSE, totalQuestions |-> 0, totalResponses |-> 0]
NoFallback == [message |-> <<>>, count |-> 0]
NoLog == [on |-> FALSE, turns |-> FALSE, processing |-> None, state |-> NoState,
          fallback |-> NoFallback, answers |-> 0]
LogOn == [NoLog EXCEPT !.on = TRUE]
LogTurns == [NoLog EXCEPT !.turns = TRUE]

VoiceUrl == Url("/webhook/voice", NullStr)
MenuUrl == Url("/webhook/menu", NullStr)
StatusUrl == Url("/webhook/status", NullStr)
ResponseUrl == Url("/webhook/response", NullStr)
ResponseTimeoutUrl == Url("/webhook/response-timeout", NullStr)
CoachingResponseUrl == Url("/webhook/coaching-response", NullStr)
CoachingTimeoutUrl == Url("/webhook/coaching-timeout", NullStr)

\* No call, no session, no request: the call flow at rest.
FlowIdle ==
    /\ callSid = "CA1"
    /\ channel = "phone"
    /\ session = NoSession
    /\ h = Idle
    /\ tasks = {}
    /\ sent = NoSent
    /\ next = {}
    /\ transcribing = NullStr
    /\ rest = NoRest
    /\ ended = NoEnded
    /\ logged = NoLog

\* ------------------------------------------------------------ murfaiService
RECURSIVE Sum(_)
Sum(s) == IF s = <<>> THEN 0 ELSE Head(s) + Sum(Tail(s))

\* `${n}` of a small number.
Str(n) == IF n < 0 THEN <<"-", ToString(-n)>> ELSE <<ToString(n)>>

\* textToSpeech's destructuring default: only an undefined voiceId is replaced;
\* null stays and is interpolated as "null".
DefaultVoice == <<"n">>
VoiceOf(v) == IF v = Undefined THEN DefaultVoice ELSE v

\* generateCacheKey: the hashed string `${text}-${voiceId}-${pitch}-${speed}`
\* (the digest is taken as a one-to-one image of the string).
generateCacheKey(text, voiceId, pitch, speed) ==
    text \o <<"-">> \o voiceId \o <<"-">> \o Str(pitch) \o <<"-">> \o Str(speed)

ToLower(format) == IF format = "WAV" THEN "wav" ELSE IF format = "MP3" THEN "mp3" ELSE format

\* getCachedAudio: the first of cacheKey.wav, cacheKey.mp3 that exists, or NoFile.
GetCachedFormatsMp3Only == <<"mp3">>
GetCachedFormats == <<"wav", "mp3">>
getCachedAudio(cacheKey) ==
    LET hit == {i \in 1..Len(GetCachedFormats) :
                    <<cacheKey, GetCachedFormats[i]>> \in DOMAIN files}
    IN  IF hit = {} THEN NoFile
        ELSE LET i == CHOOSE j \in hit : \A k \in hit : j <= k
             IN  <<cacheKey, GetCachedFormats[i]>>

\* saveAudioFile: writeFile(`${cacheKey}.${format.toLowerCase()}`, audioData).
saveAudioFile(size, cacheKey, format) ==
    LET name == <<cacheKey, ToLower(format)>>
    IN  [n \in DOMAIN files \cup {name} |->
            IF n = name THEN [size |-> size, old |-> FALSE] ELSE files[n]]

ReqKey(r) == generateCacheKey(r.text, VoiceOf(r.voiceId), r.pitch, r.speed)

Requests ==
    [text : Texts, voiceId : VoiceIds, pitch : Pitches, speed : Speeds,
     format : Formats, useCache : BOOLEAN]

NoReq == [text |-> <<>>, voiceId |-> Undefined, pitch |-> 0, speed |-> 0,
          format |-> "WAV", useCache |-> TRUE]
NoResult == [kind |-> None, url |-> NoFile, size |-> 0, opened |-> 0]
Pending == [state |-> "pending", bytes |-> 0]

WsReset ==
    /\ ws' = None
    /\ audioChunks' = <<>>
    /\ firstChunk' = TRUE
    /\ receivedData' = FALSE
    /\ connectionTimeout' = FALSE
    /\ promise' = Pending
    /\ frames' = 0

\* resolve / reject settle the promise once; later calls change nothing.
Resolve(p, bytes) == IF p.state = "pending" THEN [state |-> "resolved", bytes |-> bytes] ELSE p
Reject(p) == IF p.state = "pending" THEN [state |-> "rejected", bytes |-> 0] ELSE p

\* textToSpeech up to its first suspension on the socket: the API key check,
\* the cache key, the cache lookup when useCache, else new WebSocket(wsUrl) and
\* the 10 s connection timer.
TextToSpeech(r) ==
    /\ tpc = "idle"
    /\ nCalls < MaxCalls
    /\ nCalls' = nCalls + 1
    /\ req' = r
    /\ LET cached == IF r.useCache THEN getCachedAudio(ReqKey(r)) ELSE NoFile
       IN  IF ~apiKey
           THEN \* throw new Error('MurfAI API key not configured')
                /\ tpc' = "done"
                /\ result' = [kind |-> "error", url |-> NoFile, size |-> 0, opened |-> 0]
                /\ UNCHANGED wsVars
           ELSE IF cached # NoFile
           THEN /\ tpc' = "done"
                /\ result' = [kind |-> "cached", url |-> cached,
                              size |-> files[cached].size, opened |-> 0]
                /\ UNCHANGED wsVars
           ELSE /\ tpc' = "ws"
                /\ result' = NoResult
                /\ ws' = "connecting"
                /\ audioChunks' = <<>>
                /\ firstChunk' = TRUE
                /\ receivedData' = FALSE
                /\ connectionTimeout' = TRUE
                /\ promise' = Pending
                /\ frames' = 0
    /\ UNCHANGED <<otherVars, files, lastOk>>

\* A direct call of textToSpeech (the test script, batchTextToSpeech).
Call(r) ==
    /\ render = NoRender
    /\ TextToSpeech(r)
    /\ UNCHANGED renderVars

\* ws.on('open'): the configuration frame and the text frame are sent; a
\* failing send clears the timer, closes the socket and rejects.
WsOpen(sendThrows) ==
    /\ ws = "connecting"
    /\ promise.state = "pending"
    /\ IF sendThrows
       THEN /\ connectionTimeout' = FALSE
            /\ ws' = "closing"
            /\ promise' = Reject(promise)
       ELSE /\ ws' = "open"
            /\ UNCHANGED <<connectionTimeout, promise>>
    /\ UNCHANGED <<audioChunks, firstChunk, receivedData, frames>>
    /\ UNCHANGED <<otherVars, callVars, renderVars, files, lastOk>>

\* The length pushed for one decoded payload: the first chunk longer than the
\* WAV header loses the header.
Pushed(len, first) == IF first /\ len > WavHeader THEN len - WavHeader ELSE len

\* What the message handler does once the frame is parsed: push the audio, and
\* on the final flag close the socket and resolve with the concatenation.
OnFinal(p, chunks) == Resolve(p, Sum(chunks))

\* ws.on('message').
WsMessage(f) ==
    /\ ws = "open"
    /\ promise.state = "pending"
    /\ frames < MaxFrames
    /\ frames' = frames + 1
    /\ receivedData' = TRUE
    /\ connectionTimeout' = FALSE
    /\ IF ~f.json
       THEN \* JSON.parse throws: ws.close(); reject(error)
            /\ ws' = "closing"
            /\ promise' = Reject(promise)
            /\ UNCHANGED <<audioChunks, firstChunk>>
       ELSE LET hasAudio == f.audio > 0
                chunks == IF hasAudio
                          THEN Append(audioChunks, Pushed(f.audio, firstChunk))
                          ELSE audioChunks
            IN  /\ audioChunks' = chunks
                /\ firstChunk' = IF hasAudio /\ firstChunk /\ f.audio > WavHeader
                                 THEN FALSE ELSE firstChunk
                /\ IF f.final
                   THEN /\ ws' = "closing"
                        /\ promise' = OnFinal(promise, chunks)
                   ELSE UNCHANGED <<ws, promise>>
    /\ UNCHANGED <<otherVars, callVars, renderVars, files, lastOk>>

\* ws.on('error').
WsError ==
    /\ ws \in {"connecting", "open"}
    /\ promise.state = "pending"
    /\ connectionTimeout' = FALSE
    /\ promise' = Reject(promise)
    /\ ws' = "closing"
    /\ UNCHANGED <<audioChunks, firstChunk, receivedData, frames>>
    /\ UNCHANGED <<otherVars, callVars, renderVars, files, lastOk>>

\* ws.on('close'), here for a socket the backend closes: the handler rejects
\* only when no chunk was pushed.
WsClose ==
    /\ ws = "open"
    /\ promise.state = "pending"
    /\ connectionTimeout' = FALSE
    /\ promise' = IF Len(audioChunks) = 0 THEN Reject(promise) ELSE promise
    /\ ws' = "closed"
    /\ UNCHANGED <<audioChunks, firstChunk, receivedData, frames>>
    /\ UNCHANGED <<otherVars, callVars, renderVars, files, lastOk>>

\* The connection timer fires 10 s after the socket was created.
ConnectionTimeout ==
    /\ connectionTimeout
    /\ promise.state = "pending"
    /\ connectionTimeout' = FALSE
    /\ IF ~receivedData
       THEN /\ ws' = "closing"
            /\ promise' = Reject(promise)
       ELSE UNCHANGED <<ws, promise>>
    /\ UNCHANGED <<audioChunks, firstChunk, receivedData, frames>>
    /\ UNCHANGED <<otherVars, callVars, renderVars, files, lastOk>>

\* textToSpeech resumes as soon as the promise settles (its continuation runs
\* before any further socket or timer callback): saveAudioFile and the result,
\* or the error rethrown. What the settled connection does afterwards (its close
\* event, stray frames, the cleared timer) changes nothing the service keeps.
TextToSpeechRetry ==
    /\ tpc = "ws"
    /\ promise.state = "rejected"
    /\ nCalls < MaxCalls
    /\ nCalls' = nCalls + 1
    /\ ws' = "connecting"
    /\ audioChunks' = <<>>
    /\ firstChunk' = TRUE
    /\ receivedData' = FALSE
    /\ connectionTimeout' = TRUE
    /\ promise' = Pending
    /\ frames' = 0
    /\ UNCHANGED <<otherVars, renderVars, req, tpc, result, files, lastOk>>
TextToSpeechResume ==
    /\ tpc = "ws"
    /\ promise.state # "pending"
    /\ tpc' = "done"
    /\ IF promise.state = "resolved"
       THEN LET name == <<ReqKey(req), ToLower(req.format)>>
            IN  /\ files' = saveAudioFile(promise.bytes, ReqKey(req), req.format)
                /\ result' = [kind |-> "generated", url |-> name,
                              size |-> promise.bytes, opened |-> 1]
       ELSE /\ result' = [kind |-> "error", url |-> NoFile, size |-> 0, opened |-> 1]
            /\ UNCHANGED files
    /\ WsReset
    /\ UNCHANGED <<otherVars, renderVars, req, nCalls, lastOk>>

\* The direct caller takes the result; the next call may start.
Return ==
    /\ tpc = "done"
    /\ render = NoRender
    /\ tpc' = "idle"
    /\ lastOk' = IF result.kind \in {"cached", "generated"}
                 THEN [ok |-> TRUE, key |-> ReqKey(req), url |-> result.url,
                       useCache |-> req.useCache]
                 ELSE lastOk
    /\ req' = NoReq
    /\ result' = NoResult
    /\ UNCHANGED <<otherVars, wsVars, renderVars, files, nCalls>>

\* clearCache(olderThanDays = 7): every file whose age exceeds the limit is
\* unlinked; a file's old flag says that now - mtime > maxAge.
clearCache ==
    [n \in {m \in DOMAIN files : ~files[m].old} |-> files[n]]

ClearCache ==
    /\ tpc = "idle"
    /\ files' = clearCache
    /\ files' # files
    /\ lastOk' = NoLast
    /\ UNCHANGED <<otherVars, wsVars, callVars, renderVars>>

\* Time passes: the files written so far are now older than the sweep's limit.
TimePasses ==
    /\ tpc = "idle"
    /\ \E n \in DOMAIN files : ~files[n].old
    /\ files' = [n \in DOMAIN files |-> [files[n] EXCEPT !.old = TRUE]]
    /\ UNCHANGED <<otherVars, wsVars, callVars, renderVars, lastOk>>

TtsIdle ==
    /\ render = NoRender
    /\ twiml = NoTwiml
    /\ files = <<>>
    /\ req = NoReq
    /\ tpc = "idle"
    /\ result = NoResult
    /\ ws = None
    /\ audioChunks = <<>>
    /\ firstChunk = TRUE
    /\ receivedData = FALSE
    /\ connectionTimeout = FALSE
    /\ promise = Pending
    /\ frames = 0
    /\ nCalls = 0
    /\ lastOk = NoLast
    /\ batch = NoBatch
    /\ io = NoIo

InitTTS ==
    /\ apiKey \in BOOLEAN
    /\ useMurfAI = TRUE
    /\ TtsIdle
    /\ FlowIdle

WsNext ==
    \/ \E b \in BOOLEAN : WsOpen(b)
    \/ \E f \in Frames : WsMessage(f)
    \/ WsError
    \/ WsClose
    \/ ConnectionTimeout
    \/ TextToSpeechResume

NextTTS ==
    \/ \E r \in Requests : Call(r)
    \/ WsNext
    \/ Return
    \/ ClearCache
    \/ TimePasses

SpecTTS == InitTTS /\ [][NextTTS]_vars

\* The timer and the continuation of textToSpeech are the service's own and run
\* when they are due; nothing is assumed of the backend.
FairSpecTTS ==
    /\ SpecTTS
    /\ WF_vars(ConnectionTimeout)
    /\ WF_vars(TextToSpeechResume)
    /\ WF_vars(Return)

\* ------------------------------------------------- the cache files on disk
\* saveAudioFile and getCachedAudio as the file system runs them. fs.writeFile
\* opens the file with flag 'w' (created, or truncated to length 0) and then
\* writes the buffer in pieces from position 0; getCachedAudio awaits fs.access
\* and then fs.readFile for each format. Lengths are counted in pieces. Several
\* textToSpeech calls may save the same file name: nothing keeps two requests
\* for one text apart, and the syntheses need not be of equal length.
SaveSizes == {1, 2}
SaveNames == {<<ReqKey(r), "wav">> : r \in Requests}

\* fs.writeFile(filepath, audioData) up to the open: the name exists from here
\* on, with no content.
SaveOpen(name, size) ==
    /\ io.started < MaxSaves
    /\ files' = [n \in DOMAIN files \cup {name} |->
                    IF n = name THEN [size |-> 0, old |-> FALSE] ELSE files[n]]
    /\ io' = [io EXCEPT !.started = @ + 1,
                        !.writes = @ \cup {[id |-> io.started + 1, name |-> name,
                                            size |-> size, at |-> 0]}]
    /\ UNCHANGED <<apiKey, useMurfAI, flowVars, batch>>
    /\ UNCHANGED <<wsVars, callVars, renderVars, lastOk>>

\* The next piece of an open write lands at its position; after the last piece
\* saveAudioFile returns the URL.
SaveWrite(w) ==
    /\ w \in io.writes
    /\ LET at == w.at + 1
           length == IF files[w.name].size > at THEN files[w.name].size ELSE at
       IN  /\ files' = [files EXCEPT ![w.name].size = length]
           /\ io' = [io EXCEPT
                        !.writes = IF at = w.size THEN @ \ {w}
                                   ELSE (@ \ {w}) \cup {[w EXCEPT !.at = at]},
                        !.finished = IF at = w.size THEN @ \cup {<<w.name, w.size>>} ELSE @]
    /\ UNCHANGED <<apiKey, useMurfAI, flowVars, batch>>
    /\ UNCHANGED <<wsVars, callVars, renderVars, lastOk>>

\* getCachedAudio(cacheKey) starts with the first format.
LookupStart(cacheKey) ==
    /\ io.lookup.pc = "idle"
    /\ io' = [io EXCEPT !.lookup = [NoLookup EXCEPT !.pc = "access", !.key = cacheKey,
                                                    !.i = 1]]
    /\ UNCHANGED <<apiKey, useMurfAI, flowVars, batch>>
    /\ UNCHANGED <<wsVars, callVars, renderVars, files, lastOk>>

\* await fs.access(filepath): a missing file throws into the inner catch and
\* the loop goes on to the next format; after the last one null is returned.
LookupAccess ==
    /\ io.lookup.pc = "access"
    /\ LET l == io.lookup
           name == <<l.key, GetCachedFormats[l.i]>>
       IN  io' = [io EXCEPT !.lookup =
                    IF name \in DOMAIN files THEN [l EXCEPT !.pc = "read", !.name = name]
                    ELSE IF l.i < Len(GetCachedFormats) THEN [l EXCEPT !.i = @ + 1]
                    ELSE [l EXCEPT !.pc = "idle"]]
    /\ UNCHANGED <<apiKey, useMurfAI, flowVars, batch>>
    /\ UNCHANGED <<wsVars, callVars, renderVars, files, lastOk>>

\* await fs.readFile(filepath): what the file holds now is returned with
\* cached: true.
LookupRead ==
    /\ io.lookup.pc = "read"
    /\ LET l == io.lookup
       IN  io' = [io EXCEPT !.lookup = [l EXCEPT !.pc = "idle", !.hit = TRUE,
                                                !.bytes = files[l.name].size],
                           !.seen = @ \cup {<<l.name, files[l.name].size>>}]
    /\ UNCHANGED <<apiKey, useMurfAI, flowVars, batch>>
    /\ UNCHANGED <<wsVars, callVars, renderVars, files, lastOk>>

InitFiles ==
    /\ apiKey = TRUE
    /\ useMurfAI = TRUE
    /\ TtsIdle
    /\ FlowIdle

NextFiles ==
    \/ \E n \in SaveNames, z \in SaveSizes : SaveOpen(n, z)
    \/ \E w \in io.writes : SaveWrite(w)
    \/ \E r \in Requests : LookupStart(ReqKey(r))
    \/ LookupAccess
    \/ LookupRead

SpecFiles == InitFiles /\ [][NextFiles]_vars

\* ------------------------------------------------------------- the sweep
\* clearCache(olderThanDays) with the files' ages, counted in days: now and
\* maxAge are taken once, then every listed file is stat'ed and unlinked when
\* age > maxAge, and the unlinks are counted.
SweepDays == 0..2

ExceedsOrReaches(age, maxAge) == age >= maxAge
Exceeds(age, maxAge) == age > maxAge

RECURSIVE clearCacheLoop(_, _, _, _)
clearCacheLoop(listing, fs, maxAge, deletedCount) ==
    IF listing = {} THEN [files |-> fs, deletedCount |-> deletedCount]
    ELSE LET file == CHOOSE n \in listing : TRUE
             age == io.now - io.mtime[file]
         IN  IF Exceeds(age, maxAge)
             THEN clearCacheLoop(listing \ {file},
                                 [n \in DOMAIN fs \ {file} |-> fs[n]], maxAge,
                                 deletedCount + 1)
             ELSE clearCacheLoop(listing \ {file}, fs, maxAge, deletedCount)

\* A clearCache call from the script or the service, run to its return.
ClearCacheCall(olderThanDays) ==
    /\ io.sweep.pc = "idle"
    /\ LET swept == clearCacheLoop(DOMAIN files, files, olderThanDays, 0)
       IN  /\ files' = swept.files
           /\ io' = [io EXCEPT !.sweep = [pc |-> "returned", olderThanDays |-> olderThanDays,
                                          deletedCount |-> swept.deletedCount,
                                          before |-> files, written |-> io.mtime],
                               !.mtime = [n \in DOMAIN swept.files |-> @[n]]]
    /\ UNCHANGED <<apiKey, useMurfAI, flowVars, batch>>
    /\ UNCHANGED <<wsVars, callVars, renderVars, lastOk>>

\* The caller has the result.
ClearCacheReturn ==
    /\ io.sweep.pc = "returned"
    /\ io' = [io EXCEPT !.sweep = NoSweep]
    /\ UNCHANGED <<apiKey, useMurfAI, flowVars, batch>>
    /\ UNCHANGED <<wsVars, callVars, renderVars, files, lastOk>>

\* A file is saved today.
SaveToday(size, cacheKey, format) ==
    /\ io.sweep.pc = "idle"
    /\ files' = saveAudioFile(size, cacheKey, format)
    /\ io' = [io EXCEPT !.mtime = [n \in DOMAIN files' |->
                                      IF n = <<cacheKey, ToLower(format)>> THEN io.now
                                      ELSE @[n]]]
    /\ UNCHANGED <<apiKey, useMurfAI, flowVars, batch>>
    /\ UNCHANGED <<wsVars, callVars, renderVars, lastOk>>

\* A day passes.
DayPasses ==
    /\ io.sweep.pc = "idle"
    /\ io.now < MaxDays
    /\ io' = [io EXCEPT !.now = @ + 1]
    /\ UNCHANGED <<apiKey, useMurfAI, flowVars, batch>>
    /\ UNCHANGED <<wsVars, callVars, renderVars, files, lastOk>>

NextSweep ==
    \/ \E z \in SaveSizes, r \in Requests : SaveToday(z, ReqKey(r), r.format)
    \/ DayPasses
    \/ \E d \in SweepDays : ClearCacheCall(d)
    \/ ClearCacheReturn

SpecSweep == InitFiles /\ [][NextSweep]_vars

\* --------------------------------------------------------- the cache key
\* generateCacheKey on texts and voice ids that hold a hyphen themselves (the
\* voice ids of getDefaultVoices all do: 'en-US-natalie') and on negative pitch
\* and speed. req is the request of the last call and lastOk.key its key.
KeyTexts == {<<"a">>, <<"a", "-", "b">>}
KeyVoices == {<<"n">>, <<"b", "-", "n">>}
KeyNumbers == {-1, 0, 1}
KeyRequests ==
    [text : KeyTexts, voiceId : KeyVoices, pitch : KeyNumbers, speed : KeyNumbers,
     format : Formats, useCache : BOOLEAN]

\* textToSpeech as far as const cacheKey = this.generateCacheKey(...).
KeyCall(r) ==
    /\ req' = r
    /\ lastOk' = [ok |-> TRUE, key |-> ReqKey(r), url |-> NoFile, useCache |-> r.useCache]
    /\ UNCHANGED <<otherVars, wsVars, renderVars, files, tpc, result, nCalls>>

NextKey == \E r \in KeyRequests : KeyCall(r)

SpecKey == InitFiles /\ [][NextKey]_vars

\* ------------------------------------------------- twilioService (renderer)
\* The options a handler passes; fields a function does not read keep their
\* defaults (action = null, timeoutAction = null, timeout = 5).
RenderCalls ==
    [fn : {"generateTwiMLResponse"}, message : Texts, action : Actions,
     timeout : GatherTimeouts, timeoutAction : {NullUrl}]
    \cup [fn : {"generateRecordingTwiML"}, message : Texts, action : Actions,
          timeout : {5}, timeoutAction : TimeoutActions]
    \cup [fn : {"generateHangupTwiML"}, message : Texts, action : {NullUrl},
          timeout : {5}, timeoutAction : {NullUrl}]

\* TwiML verbs.
Play(url) == [verb |-> "play", url |-> url]
Say(message) == [verb |-> "say", voice |-> "alice", message |-> message]
Gather(action, timeout, nested) ==
    [verb |-> "gather", action |-> action, method |-> "POST", timeout |-> timeout,
     nested |-> nested]
Hangup == [verb |-> "hangup"]

\* generateRecordingTwiML's recordOptions; no action in use contains
\* 'recording', so transcribeCallback is the action itself.
recordOptions(c) ==
    [verb |-> "record", action |-> c.action,
     method |-> IF c.action # NullUrl THEN "POST" ELSE NullStr,
     transcribeCallback |-> c.action, timeoutAction |-> c.timeoutAction]

\* addFallbackTTS: the message said with the built-in voice, inside the gather
\* when there is an action.
addFallbackSayOnly(message, action, timeout) == <<Say(message)>>
addFallbackTTS(message, action, timeout) ==
    IF action # NullUrl
    THEN <<Gather(action, timeout, <<Say(message)>>)>>
    ELSE <<Say(message)>>

\* generateTwiMLResponse after generateAudioUrl settled: audioUrl is the URL, or
\* NoFile when the call rejected (the inner catch).
generateTwiMLResponse(c, audioUrl) ==
    IF audioUrl # NoFile
    THEN IF c.action # NullUrl
         THEN <<Gather(c.action, c.timeout, <<Play(audioUrl)>>)>>
         ELSE <<Play(audioUrl)>>
    ELSE addFallbackTTS(c.message, c.action, c.timeout)

generateRecordingTwiML(c, audioUrl) ==
    <<IF audioUrl # NoFile THEN Play(audioUrl) ELSE Say(c.message), recordOptions(c)>>

generateHangupTwiML(c, audioUrl) ==
    <<IF audioUrl # NoFile THEN Play(audioUrl) ELSE Say(c.message), Hangup>>

TwiMLOf(c, audioUrl) ==
    IF c.fn = "generateTwiMLResponse" THEN generateTwiMLResponse(c, audioUrl)
    ELSE IF c.fn = "generateRecordingTwiML" THEN generateRecordingTwiML(c, audioUrl)
    ELSE generateHangupTwiML(c, audioUrl)

\* What generateAudioUrl gives the renderer: the URL of an artifact, or NoFile
\* for a rejection.
SomeUrl == <<<<"u">>, "wav">>
Audios == {SomeUrl, NoFile}

\* generateAudioUrl(message, { voiceId }) with the renderer's voiceId = null.
AudioRequest(c) ==
    [text |-> c.message, voiceId |-> Null, pitch |-> 0, speed |-> 0,
     format |-> "WAV", useCache |-> TRUE]

\* A generate...TwiML call up to its await of generateAudioUrl, or to its end
\* when MurfAI is disabled (the built-in voice branch).
Generate(c) ==
    /\ render.fn = None
    /\ IF useMurfAI
       THEN /\ TextToSpeech(AudioRequest(c))
            /\ render' = c
            /\ twiml' = NoTwiml
       ELSE /\ tpc = "idle"
            /\ nCalls < MaxCalls
            /\ nCalls' = nCalls + 1
            /\ twiml' = [outcome |-> "builtin", call |-> c, doc |-> TwiMLOf(c, NoFile)]
            /\ UNCHANGED <<otherVars, wsVars, req, tpc, result, render, files, lastOk>>

\* generateAudioUrl settled: the document is finished and returned.
Finish ==
    /\ render.fn # None
    /\ tpc = "done"
    /\ LET ok == result.kind \in {"cached", "generated"}
       IN  /\ twiml' = [outcome |-> IF ok THEN "played" ELSE "rejected",
                        call |-> render,
                        doc |-> TwiMLOf(render, IF ok THEN result.url ELSE NoFile)]
           /\ lastOk' = IF ok
                        THEN [ok |-> TRUE, key |-> ReqKey(req), url |-> result.url,
                              useCache |-> req.useCache]
                        ELSE lastOk
    /\ render' = NoRender
    /\ tpc' = "idle"
    /\ req' = NoReq
    /\ result' = NoResult
    /\ UNCHANGED <<otherVars, wsVars, files, nCalls>>

\* GET /audio/:filename as the transport sees it: 400 for a name the check
\* refuses (a cache key is 16 hex digits, so the name is refused for its
\* extension only), 404 for a missing file, 500 for an empty one, else the bytes.
ServeAudio(name) ==
    IF name[2] \notin {"mp3", "wav"} THEN 400
    ELSE IF name \notin DOMAIN files THEN 404
    ELSE IF files[name].size = 0 THEN 500
    ELSE 200

InitRender ==
    /\ apiKey \in BOOLEAN
    /\ useMurfAI \in BOOLEAN
    /\ TtsIdle
    /\ FlowIdle

NextRender ==
    \/ \E c \in RenderCalls : Generate(c)
    \/ WsNext
    \/ Finish

SpecRender == InitRender /\ [][NextRender]_vars

\* The verb that speaks the message, and the document without it.
RECURSIVE Spoken(_)
Spoken(doc) ==
    IF doc = <<>> THEN <<>>
    ELSE IF Head(doc).verb \in {"play", "say"} THEN <<Head(doc)>>
    ELSE IF Head(doc).verb = "gather" THEN Spoken(Head(doc).nested)
    ELSE Spoken(Tail(doc))

RECURSIVE FollowUp(_)
FollowUp(doc) ==
    IF doc = <<>> THEN <<>>
    ELSE IF Head(doc).verb \in {"play", "say"} THEN FollowUp(Tail(doc))
    ELSE IF Head(doc).verb = "gather"
         THEN <<[Head(doc) EXCEPT !.nested = FollowUp(Head(doc).nested)]>>
                  \o FollowUp(Tail(doc))
    ELSE <<Head(doc)>> \o FollowUp(Tail(doc))

\* C7: whatever generateAudioUrl did, the renderer returned a document; when it
\* rejected, the document says the same message with the built-in voice and
\* carries the follow-up instruction of the document played on success.
C7_FallbackKeepsFollowUp ==
    /\ twiml.outcome # None => twiml.doc # <<>>
    /\ twiml.outcome = "rejected" =>
          /\ Spoken(twiml.doc) = <<Say(twiml.call.message)>>
          /\ FollowUp(twiml.doc) = FollowUp(TwiMLOf(twiml.call, SomeUrl))

C7_Witness ==
    /\ twiml.outcome = "rejected"
    /\ twiml.call.fn = "generateTwiMLResponse"
    /\ twiml.call.action # NullUrl
    /\ apiKey

\* ----------------------------------------- murfaiService: batchTextToSpeech
\* const concurrencyLimit = 3.
concurrencyLimit == 3

\* The texts of a batch. An entry is a non-empty string.
RECURSIVE SeqsUpTo(_, _)
SeqsUpTo(S, n) ==
    IF n = 0 THEN {<<>>}
    ELSE LET shorter == SeqsUpTo(S, n - 1)
         IN  shorter \cup {Append(s, x) : s \in {t \in shorter : Len(t) = n - 1}, x \in S}
TextArrays == SeqsUpTo(Texts, MaxBatch)

\* The frames a connection of the batch may receive.
BatchFrames == {f \in Frames : f.audio # WavHeader}

\* textToSpeech({ text, ...options }) with options = { useCache }: the voice
\* is the default voice, the format WAV.
BatchRequest(text, useCache) ==
    [text |-> text, voiceId |-> Undefined, pitch |-> 0, speed |-> 0,
     format |-> "WAV", useCache |-> useCache]

\* textArray.slice(i, i + concurrencyLimit), i counted from 0.
SliceToEnd(texts, i) == SubSeq(texts, i + 1, Len(texts))
slice(texts, i) ==
    SubSeq(texts, i + 1,
           IF i + concurrencyLimit < Len(texts) THEN i + concurrencyLimit ELSE Len(texts))

\* One textToSpeech call of a group: its text, where it is (connecting / open:
\* the socket is open and the promise pending; dropped: the socket is closed and
\* the promise still pending; ok / cached / failed: settled) and the locals of
\* generateAudioViaWebSocket.
Slot(text, st, bytes) ==
    [text |-> text, st |-> st, frames |-> 0, receivedData |-> FALSE,
     firstChunk |-> TRUE, bytes |-> bytes]

\* textToSpeech up to its first suspension, as in TextToSpeech(r).
StartSlot(text, useCache) ==
    LET r == BatchRequest(text, useCache)
        cached == IF useCache THEN getCachedAudio(ReqKey(r)) ELSE NoFile
    IN  IF ~apiKey THEN Slot(text, "failed", 0)
        ELSE IF cached # NoFile THEN Slot(text, "cached", files[cached].size)
        ELSE Slot(text, "connecting", 0)

\* batch.map(text => this.textToSpeech(...).catch(...)): every call of the
\* group starts before the first of them is awaited.
StartGroup(texts, i, useCache) ==
    LET group == slice(texts, i)
    IN  [k \in 1..Len(group) |-> StartSlot(group[k], useCache)]

PendingSlot(s) == s.st \in {"connecting", "open", "dropped"}
OpenSlot(s) == s.st \in {"connecting", "open"}
OpenConnections == Cardinality({k \in DOMAIN batch.slots : OpenSlot(batch.slots[k])})

\* The per-text catch turns a rejection into null.
BatchResult(s) ==
    IF s.st = "failed" THEN Null ELSE <<s.text, s.st>>

\* batchTextToSpeech(textArray, options) up to its first await.
BatchTextToSpeech(by, texts, useCache) ==
    /\ batch.pc = "idle"
    /\ tpc = "idle"
    /\ render = NoRender
    /\ batch' = IF Len(texts) = 0
                THEN [NoBatch EXCEPT !.pc = "resolved", !.by = by, !.useCache = useCache]
                ELSE [pc |-> "running", by |-> by, texts |-> texts,
                      useCache |-> useCache, i |-> 0,
                      slots |-> StartGroup(texts, 0, useCache),
                      results |-> <<>>, outcomes |-> <<>>]
    /\ UNCHANGED <<cfgVars, flowVars, wsVars, callVars, renderVars, files, lastOk>>

BatchCall(texts, useCache) == BatchTextToSpeech("direct", texts, useCache)

\* A settled slot keeps its text, its state and the bytes of its artifact.
Settle(s, st, bytes) == Slot(s.text, st, bytes)

SlotStep(k, s) ==
    /\ batch' = [batch EXCEPT !.slots[k] = s]
    /\ UNCHANGED <<cfgVars, flowVars, wsVars, callVars, renderVars, files, lastOk>>

\* ws.on('open') of a connection of the group.
SlotOpen(k, sendThrows) ==
    /\ batch.pc = "running"
    /\ k \in DOMAIN batch.slots
    /\ batch.slots[k].st = "connecting"
    /\ SlotStep(k, IF sendThrows THEN Settle(batch.slots[k], "failed", 0)
                   ELSE [batch.slots[k] EXCEPT !.st = "open"])

\* ws.on('message') of a connection of the group; when the final frame resolves
\* the promise, textToSpeech goes on to saveAudioFile.
SlotMessage(k, f) ==
    /\ batch.pc = "running"
    /\ k \in DOMAIN batch.slots
    /\ LET s == batch.slots[k]
           hasAudio == f.audio > 0
           bytes == IF hasAudio THEN s.bytes + Pushed(f.audio, s.firstChunk) ELSE s.bytes
       IN  /\ s.st = "open"
           /\ s.frames < MaxFrames
           /\ IF ~f.json
              THEN /\ batch' = [batch EXCEPT !.slots[k] = Settle(s, "failed", 0)]
                   /\ UNCHANGED files
              ELSE IF f.final
              THEN /\ batch' = [batch EXCEPT !.slots[k] = Settle(s, "ok", bytes)]
                   /\ files' = saveAudioFile(bytes, ReqKey(BatchRequest(s.text, batch.useCache)),
                                             "WAV")
              ELSE /\ batch' = [batch EXCEPT !.slots[k] =
                                   [s EXCEPT !.frames = s.frames + 1,
                                             !.receivedData = TRUE,
                                             !.firstChunk = IF hasAudio /\ f.audio > WavHeader
                                                            THEN FALSE ELSE s.firstChunk,
                                             !.bytes = bytes]]
                   /\ UNCHANGED files
    /\ UNCHANGED <<cfgVars, flowVars, wsVars, callVars, renderVars, lastOk>>

\* ws.on('error') of a connection of the group.
SlotError(k) ==
    /\ batch.pc = "running"
    /\ k \in DOMAIN batch.slots
    /\ OpenSlot(batch.slots[k])
    /\ SlotStep(k, Settle(batch.slots[k], "failed", 0))

\* ws.on('close') of a connection of the group: the promise is rejected only
\* when no chunk was pushed.
SlotClose(k) ==
    /\ batch.pc = "running"
    /\ k \in DOMAIN batch.slots
    /\ batch.slots[k].st = "open"
    /\ SlotStep(k, IF batch.slots[k].bytes = 0
                   THEN Settle(batch.slots[k], "failed", 0)
                   ELSE [batch.slots[k] EXCEPT !.st = "dropped"])

\* The 10 s connection timer of a connection of the group.
SlotTimeout(k) ==
    /\ batch.pc = "running"
    /\ k \in DOMAIN batch.slots
    /\ OpenSlot(batch.slots[k])
    /\ ~batch.slots[k].receivedData
    /\ SlotStep(k, Settle(batch.slots[k], "failed", 0))

RECURSIVE MapSeq(_, _)
MapSeq(Op(_), s) == IF s = <<>> THEN <<>> ELSE <<Op(Head(s))>> \o MapSeq(Op, Tail(s))
NotNull(r) == r # Null
SlotState(s) == s.st

\* await Promise.all(batchPromises) returns: the artifacts that are not null
\* are pushed, and the loop goes on to the next group or returns the results.
GroupDone ==
    /\ batch.pc = "running"
    /\ \A k \in DOMAIN batch.slots : ~PendingSlot(batch.slots[k])
    /\ LET results == batch.results \o SelectSeq(MapSeq(BatchResult, batch.slots), NotNull)
           outcomes == batch.outcomes \o MapSeq(SlotState, batch.slots)
           i == batch.i + concurrencyLimit
       IN  batch' = IF i < Len(batch.texts)
                    THEN [batch EXCEPT !.i = i, !.results = results, !.outcomes = outcomes,
                                       !.slots = StartGroup(batch.texts, i, batch.useCache)]
                    ELSE [batch EXCEPT !.pc = "resolved", !.results = results,
                                       !.outcomes = outcomes, !.slots = <<>>]
    /\ UNCHANGED <<cfgVars, flowVars, wsVars, callVars, renderVars, files, lastOk>>

\* The caller takes the results.
BatchReturn ==
    /\ batch.pc = "resolved"
    /\ batch' = NoBatch
    /\ UNCHANGED <<cfgVars, flowVars, wsVars, callVars, renderVars, files, lastOk>>

SlotNext ==
    \E k \in 1..concurrencyLimit :
        \/ \E b \in BOOLEAN : SlotOpen(k, b)
        \/ \E f \in BatchFrames : SlotMessage(k, f)
        \/ SlotError(k)
        \/ SlotClose(k)
        \/ SlotTimeout(k)

InitBatch ==
    /\ apiKey \in BOOLEAN
    /\ useMurfAI = TRUE
    /\ TtsIdle
    /\ FlowIdle

NextBatch ==
    \/ \E texts \in TextArrays, useCache \in BOOLEAN : BatchCall(texts, useCache)
    \/ SlotNext
    \/ GroupDone
    \/ BatchReturn

SpecBatch == InitBatch /\ [][NextBatch]_vars

\* The timers and the continuations are the service's own and run when they are
\* due; a backend that has sent audio ends its stream or closes the socket.
FairSpecBatch ==
    /\ SpecBatch
    /\ \A k \in 1..concurrencyLimit :
          /\ WF_vars(SlotTimeout(k))
          /\ WF_vars(SlotClose(k) \/ \E f \in BatchFrames : SlotMessage(k, f))
    /\ WF_vars(GroupDone)

\* ------------------------------------------------------ models/Session.js
\* A Session instance as a handler or task holds it: a copy of the row's lists.
Load(s) == [questions |-> s.questions, responses |-> s.responses, overalls |-> s.overalls]

\* Session.findActiveByCallSid finds a row.
findActiveByCallSid(sid) == session.status = "active" /\ session.callSid = sid

\* Session.create({... callSid, status: 'active'}).
Create(sessionType, sid) ==
    [status |-> "active", sessionType |-> sessionType, callSid |-> sid,
     questions |-> <<>>, responses |-> <<>>, scores |-> 0, overalls |-> <<>>]

\* addQuestion / addResponse on an instance; save() then writes the changed list.
addQuestion(inst) == [inst EXCEPT !.questions = Append(@, Len(@) + 1)]
addResponse(inst, questionId) == [inst EXCEPT !.responses = Append(@, questionId)]

\* --------------------------------------------------------- routes/webhooks
\* What the reasoning service does with a request for questions, when it
\* replies at all: a non-empty list, an empty list, or a failure (the catch of
\* generateInterviewQuestions reads startTime, which is scoped to the try
\* block, so the failure is rethrown instead of the fallback list returned).
Replies == {"questions", "empty", "error"}
\* What the reasoning service does with a request for an analysis: an analysis
\* with an overall score, or a failure.
Scores == {60, 80}
AnalysisReply(ok, overall) == [ok |-> ok, overall |-> overall]
AnalysisReplies == {AnalysisReply(TRUE, 60), AnalysisReply(FALSE, 0)}
ScoredReplies == {AnalysisReply(TRUE, s) : s \in Scores}

\* openaiService.analyzeResponse as its caller sees it: the parsed analysis, or
\* an exception. The catch reads startTime too, so a failed request ends in a
\* ReferenceError before getFallbackAnalysis is reached.
analyzeResponse(reply) == [threw |-> ~reply.ok, overall |-> reply.overall]

\* logger.info / logger.error of the background answer processing.
Log(line) == IF logged.on THEN [logged EXCEPT !.processing = line] ELSE logged

\* logger.info('Session state:', { totalQuestions, totalResponses }).
LogState(inst) ==
    IF logged.turns
    THEN [logged EXCEPT !.state = [seen |-> TRUE, totalQuestions |-> Len(inst.questions),
                                   totalResponses |-> Len(inst.responses)]]
    ELSE logged

\* The fallback question of a continuation response, as the caller hears it.
LogFallback(call, inst) ==
    IF logged.turns
    THEN [logged EXCEPT !.fallback = [message |-> call.message,
                                      count |-> Len(inst.responses)]]
    ELSE logged

\* A recording submitted through the record verb's action.
LogAnswer(l, params) ==
    IF l.turns /\ params = "recordingUrl" /\ l.answers < MaxResponses
    THEN [l EXCEPT !.answers = @ + 1]
    ELSE l

\* The background tasks the model lets run at once; one more when the turns
\* are observed, for the tasks of two deliveries to overlap.
TaskLimit == IF logged.turns THEN MaxTasks + 1 ELSE MaxTasks

\* The options the handlers pass to the Prompt Renderer.
ResponseCall(message, action, timeout) ==
    [fn |-> "generateTwiMLResponse", message |-> message, action |-> action,
     timeout |-> timeout, timeoutAction |-> NullUrl]
RecordingCall(message, action, timeoutAction) ==
    [fn |-> "generateRecordingTwiML", message |-> message, action |-> action,
     timeout |-> 5, timeoutAction |-> timeoutAction]
HangupCall(message) ==
    [fn |-> "generateHangupTwiML", message |-> message, action |-> NullUrl,
     timeout |-> 5, timeoutAction |-> NullUrl]

\* The URLs a document tells the transport to request: gather and record
\* actions, and the record's timeoutAction.
Follow(doc) ==
    LET verbs == {doc[i] : i \in 1..Len(doc)}
        acts == {v \in verbs : v.verb \in {"gather", "record"}}
        recs == {v \in verbs : v.verb = "record"}
    IN  ({v.action : v \in acts} \cup {v.timeoutAction : v \in recs}) \ {NullUrl}

\* res.send(twiml): the transport follows the document while the call is live;
\* the caller may hang up at any point, which the status callback reports.
Send(route, via, call, doc) ==
    /\ sent' = [route |-> route, via |-> via, call |-> call, doc |-> doc]
    /\ next' = IF StatusUrl \in next THEN Follow(doc) \cup {StatusUrl} ELSE {}

\* The document is rendered from the options; audio is what generateAudioUrl
\* gave.
SendCall(route, via, call, audio) == Send(route, via, call, TwiMLOf(call, audio))

\* The transport requests path next, and no webhook request is in flight.
Arrives(path) ==
    /\ channel = "phone"
    /\ h.pc = "idle"
    /\ \E u \in next : u.path = path

\* POST /webhook/voice.
Voice(audio) ==
    /\ Arrives("/webhook/voice")
    /\ SendCall("/webhook/voice", "welcome",
            ResponseCall(<<"welcome">>, MenuUrl, 10), audio)
    /\ UNCHANGED <<callSid, channel, session, h, tasks, transcribing, rest, ended>>
    /\ UNCHANGED <<ttsVars, logged>>

SetupTask(sessionType) ==
    [kind |-> "setup", pc |-> "create", sessionType |-> sessionType,
     inst |-> NoInst, calls |-> 0]

\* handleRepresentativeTransfer.
handleRepresentativeTransfer == <<Say(<<"transferring">>), Say(<<"contact">>), Hangup>>

\* The last branch of /webhook/menu: the options are said again and a gather
\* waits for the selection.
RepeatMenuSayOnly == <<Say(<<"repeat-menu">>)>>
RepeatMenu == <<Say(<<"repeat-menu">>), Gather(MenuUrl, 15, <<>>)>>

\* POST /webhook/menu: options 1 and 2 answer with the hold prompt and detach
\* the setup task; option 3 reads the contact details and hangs up; anything
\* else repeats the menu.
Menu(input, audio) ==
    /\ Arrives("/webhook/menu")
    /\ Cardinality(tasks) < TaskLimit
    /\ IF input = "1"
       THEN /\ SendCall("/webhook/menu", "mock_interview",
                    ResponseCall(<<"hold-interview">>,
                                         Url("/webhook/start-interview", callSid), 1), audio)
            /\ tasks' = tasks \cup {SetupTask("mock_interview")}
       ELSE IF input = "2"
       THEN /\ SendCall("/webhook/menu", "coaching",
                    ResponseCall(<<"hold-coaching">>,
                                         Url("/webhook/start-coaching", callSid), 1), audio)
            /\ tasks' = tasks \cup {SetupTask("coaching")}
       ELSE IF input = "3"
       THEN /\ Send("/webhook/menu", "representative", NoRender, handleRepresentativeTransfer)
            /\ UNCHANGED tasks
       ELSE /\ Send("/webhook/menu", "repeat", NoRender, RepeatMenu)
            /\ UNCHANGED tasks
    /\ UNCHANGED <<callSid, channel, session, h, transcribing, rest, ended>>
    /\ UNCHANGED <<ttsVars, logged>>

\* POST /webhook/menu with option 1 or 2 when the hold prompt takes more than
\* 8 seconds to render: the timer answers with a say and nothing after it; when
\* the prompt is there the setup task is detached and the headers are sent.
MenuTimeout(input) ==
    /\ Arrives("/webhook/menu")
    /\ Cardinality(tasks) < TaskLimit
    /\ input \in {"1", "2"}
    /\ Send("/webhook/menu", "timeout", NoRender, <<Say(<<"please-hold">>)>>)
    /\ tasks' = tasks \cup {SetupTask(IF input = "1" THEN "mock_interview" ELSE "coaching")}
    /\ UNCHANGED <<callSid, channel, session, h, transcribing, rest, ended>>
    /\ UNCHANGED <<ttsVars, logged>>

\* setupMockInterviewAsync / setupCoachingAsync: Session.create, which the
\* unique callSid makes fail when the call already has a row.
TaskSetup(t) ==
    /\ t \in tasks
    /\ t.kind = "setup"
    /\ session' = IF session.status = None THEN Create(t.sessionType, callSid) ELSE session
    /\ tasks' = tasks \ {t}
    /\ UNCHANGED <<callSid, channel, h, sent, next, transcribing, rest, ended>>
    /\ UNCHANGED <<ttsVars, logged>>

\* The first part of /start-interview and /start-coaching: find the session
\* and, when there is none, create it (two awaits, between which the setup task
\* may run); then await the questions. A failing create goes to the catch.
StartArrive(route, sessionType, errorAction, audio) ==
    /\ \/ /\ Arrives(route)
          /\ h' = IF findActiveByCallSid(callSid)
                  THEN [route |-> route, pc |-> "await", inst |-> Load(session),
                        timer |-> FALSE]
                  ELSE [route |-> route, pc |-> "create", inst |-> NoInst, timer |-> FALSE]
          /\ UNCHANGED <<session, sent, next>>
       \/ /\ h.route = route
          /\ h.pc = "create"
          /\ IF session.status = None
             THEN /\ session' = Create(sessionType, callSid)
                  /\ h' = [h EXCEPT !.pc = "await"]
                  /\ UNCHANGED <<sent, next>>
             ELSE /\ SendCall(route, "error",
                          RecordingCall(<<"tell-me-about-yourself">>, errorAction, NullUrl),
                          audio)
                  /\ h' = Idle
                  /\ UNCHANGED session
    /\ UNCHANGED <<callSid, channel, tasks, transcribing, rest, ended>>
    /\ UNCHANGED <<ttsVars, logged>>

\* The rest of a start handler once the questions are there: the first one is
\* stored and asked; with none the catch asks the canned question unstored.
StartReply(route, hasQuestions, action, timeoutAction, audio) ==
    /\ h.route = route
    /\ h.pc = "await"
    /\ IF hasQuestions
       THEN /\ session' = [session EXCEPT !.questions = addQuestion(h.inst).questions]
            /\ SendCall(route, "question",
                    RecordingCall(<<"first-question">>, action, timeoutAction), audio)
       ELSE /\ SendCall(route, "error",
                    RecordingCall(<<"tell-me-about-yourself">>, action, NullUrl), audio)
            /\ UNCHANGED session
    /\ h' = Idle
    /\ UNCHANGED <<callSid, channel, tasks, transcribing, rest, ended>>
    /\ UNCHANGED <<ttsVars, logged>>

\* POST /webhook/start-interview.
StartInterview(audio) ==
    StartArrive("/webhook/start-interview", "mock_interview", ResponseUrl, audio)

\* generateInterviewQuestions replied to /start-interview.
StartInterviewReply(reply, audio) ==
    StartReply("/webhook/start-interview", reply = "questions",
               ResponseUrl, ResponseTimeoutUrl, audio)

\* POST /webhook/start-coaching.
StartCoaching(audio) ==
    StartArrive("/webhook/start-coaching", "coaching", CoachingResponseUrl, audio)

\* generateCoachingQuestions: a failure of the reasoning service is replaced
\* by the three canned coaching questions.
generateCoachingQuestions(reply) == reply \in {"questions", "error"}

StartCoachingReply(reply, audio) ==
    StartReply("/webhook/start-coaching", generateCoachingQuestions(reply),
               CoachingResponseUrl, CoachingTimeoutUrl, audio)

\* The hold prompt of an answer event: a gather that goes on to the
\* continuation endpoint of the same call after one second.
HoldCallToAnswerEndpoint(message, continuation, sid) ==
    ResponseCall(message, ResponseUrl, 1)
HoldCall(message, continuation, sid) ==
    ResponseCall(message, Url(continuation, sid), 1)

\* processResponseAsync up to its first await: with a recording URL the
\* transcript is fetched first; with a transcript processTranscribedResponse
\* starts, and returns at once when every stored question has its response.
ProcessTask(pc, inst) ==
    [kind |-> "process", pc |-> pc, sessionType |-> None, inst |-> inst, calls |-> 0]

processTranscribedResponse(inst) ==
    IF Len(inst.responses) >= Len(inst.questions)
    THEN {}
    ELSE {ProcessTask("analyze", inst)}

processResponseAsync(inst, params) ==
    IF params = "recordingUrl" THEN {ProcessTask("fetch", inst)}
    ELSE IF params = "transcriptionText" THEN processTranscribedResponse(inst)
    ELSE {}

\* The transport requests a record verb's action with the RecordingUrl.
Params == {"recordingUrl"}

\* /webhook/response and /webhook/coaching-response: the hold prompt is sent,
\* then the processing task is detached; without a session (found = FALSE) the
\* catch sends the other hold prompt and nothing is processed.
AnswerEvent(route, continuation, found, params, audio) ==
    /\ Cardinality(tasks) < TaskLimit
    /\ LET call == HoldCall(IF found THEN <<"hold">> ELSE <<"continue">>,
                             continuation, callSid)
       IN  sent' = [route |-> route, via |-> IF found THEN "hold" ELSE "error",
                    call |-> call, doc |-> TwiMLOf(call, audio)]
    /\ tasks' = IF found THEN tasks \cup processResponseAsync(Load(session), params)
                ELSE tasks
    /\ logged' = LogAnswer(IF found THEN Log("started") ELSE logged, params)
    /\ UNCHANGED <<callSid, channel, session, h, rest, ended>>
    /\ UNCHANGED ttsVars

\* POST /webhook/response as the record verb's action.
Response(params, audio) ==
    /\ Arrives("/webhook/response")
    /\ AnswerEvent("/webhook/response", "/webhook/continue-interview",
                   findActiveByCallSid(callSid), params, audio)
    /\ next' = Follow(sent'.doc) \cup {StatusUrl}
    /\ transcribing' = IF params = "recordingUrl"
                       THEN "/webhook/response" ELSE transcribing

\* POST /webhook/coaching-response as the record verb's action.
CoachingResponse(params, audio) ==
    /\ Arrives("/webhook/coaching-response")
    /\ AnswerEvent("/webhook/coaching-response", "/webhook/continue-coaching",
                   findActiveByCallSid(callSid) /\ session.sessionType = "coaching",
                   params, audio)
    /\ next' = Follow(sent'.doc) \cup {StatusUrl}
    /\ transcribing' = IF params = "recordingUrl"
                       THEN "/webhook/coaching-response" ELSE transcribing

\* The transcription callback of a recording (the record verb's
\* transcribeCallback is its action): the same handlers, requested with
\* TranscriptionText; the transport does not follow what they answer.
TranscribeCallback(audio) ==
    /\ channel = "phone"
    /\ h.pc = "idle"
    /\ transcribing # NullStr
    /\ IF transcribing = "/webhook/response"
       THEN AnswerEvent("/webhook/response", "/webhook/continue-interview",
                        findActiveByCallSid(callSid), "transcriptionText", audio)
       ELSE AnswerEvent("/webhook/coaching-response", "/webhook/continue-coaching",
                        findActiveByCallSid(callSid) /\ session.sessionType = "coaching",
                        "transcriptionText", audio)
    /\ transcribing' = NullStr
    /\ UNCHANGED next

\* processRecordedResponse: the recordings and the transcription are fetched;
\* without a transcript (or on an error) nothing is processed.
TaskFetch(t, found) ==
    /\ t \in tasks
    /\ t.kind = "process"
    /\ t.pc = "fetch"
    /\ tasks' = (tasks \ {t}) \cup (IF found THEN processTranscribedResponse(t.inst) ELSE {})
    /\ logged' = IF found THEN logged ELSE Log("fetch-failed")
    /\ UNCHANGED <<callSid, channel, session, h, sent, next, transcribing, rest, ended>>
    /\ UNCHANGED ttsVars

\* processTranscribedResponse after analyzeResponse: session.update writes the
\* instance's responses with the new one appended and the scores with those of
\* the analysis spread over them, and the scores are logged; a failed analysis
\* is caught and logged, and nothing is written.
TaskStore(t, reply) ==
    /\ t \in tasks
    /\ t.kind = "process"
    /\ t.pc = "analyze"
    /\ LET analysis == analyzeResponse(reply)
       IN  IF ~analysis.threw
           THEN /\ session' = [session EXCEPT
                       !.responses = addResponse(t.inst,
                                        t.inst.questions[Len(t.inst.responses) + 1]).responses,
                       !.scores = analysis.overall,
                       !.overalls = Append(t.inst.overalls, analysis.overall)]
                /\ logged' = Log("processed")
           ELSE /\ logged' = Log("analysis-failed")
                /\ UNCHANGED session
    /\ tasks' = tasks \ {t}
    /\ UNCHANGED <<callSid, channel, h, sent, next, transcribing, rest, ended>>
    /\ UNCHANGED ttsVars

\* endMockInterview / endCoachingSession: completeSession on the row.
completeSession(route) ==
    /\ session' = [session EXCEPT !.status = "completed"]
    /\ ended' = [by |-> route, questions |-> Len(session.questions),
                 responses |-> Len(session.responses), score |-> session.scores]

\* generateNextQuestion / generateNextCoachingQuestion return null at once, and
\* /webhook/continue-interview ends the interview: the questions stored have
\* reached the cap.
Enough(inst, cap) == Len(inst.questions) >= cap

\* The prompt /webhook/continue-interview records the answer to when the race
\* gave no question.
FallbackAsHangup(action, timeoutAction) == HangupCall(<<"fallback-leadership">>)
FallbackQuestionCall(action, timeoutAction) ==
    RecordingCall(<<"fallback-leadership">>, action, timeoutAction)

\* What generateNextQuestion asks of the reasoning service: one question, with
\* the texts of the questions of its session instance to avoid.
NextQuestionRequest(inst) ==
    [questionCount |-> 1, previousQuestions |-> inst.questions]

GenerateTask(inst, calls) ==
    [kind |-> "generate", pc |-> "await", sessionType |-> None, inst |-> inst,
     calls |-> calls]

\* POST /webhook/continue-interview up to the race: without a session the catch
\* says a canned question and records; at the cap the session is completed and
\* the call hung up; else generateNextQuestion is raced against 8 seconds.
ContinueInterview(audio) ==
    /\ Arrives("/webhook/continue-interview")
    /\ Cardinality(tasks) < TaskLimit
    /\ IF ~findActiveByCallSid(callSid)
       THEN /\ Send("/webhook/continue-interview", "error", NoRender,
                    <<Say(<<"fallback-pressure">>),
                      recordOptions(RecordingCall(<<>>, ResponseUrl, ResponseTimeoutUrl))>>)
            /\ UNCHANGED <<session, h, ended, logged>>
       ELSE IF Enough(Load(session), MockInterviewCap)
       THEN /\ completeSession("/webhook/continue-interview")
            /\ SendCall("/webhook/continue-interview", "end",
                    HangupCall(<<"completed">>), audio)
            /\ logged' = LogState(Load(session))
            /\ UNCHANGED h
       ELSE /\ h' = [route |-> "/webhook/continue-interview", pc |-> "race",
                     inst |-> Load(session), timer |-> TRUE]
            /\ logged' = LogState(Load(session))
            /\ UNCHANGED <<session, sent, next, ended>>
    /\ UNCHANGED <<callSid, channel, tasks, transcribing, rest>>
    /\ UNCHANGED ttsVars

\* The race is won by generateNextQuestion: with a question it is stored and
\* asked; with null the fallback question is asked and generateNextQuestion is
\* called again in the background.
ContinueInterviewReply(reply, audio) ==
    /\ h.route = "/webhook/continue-interview"
    /\ h.pc = "race"
    /\ IF reply = "questions"
       THEN /\ session' = [session EXCEPT !.questions = addQuestion(h.inst).questions]
            /\ SendCall("/webhook/continue-interview", "question",
                    RecordingCall(<<"next-question">>, ResponseUrl, ResponseTimeoutUrl), audio)
            /\ UNCHANGED <<tasks, logged>>
       ELSE /\ SendCall("/webhook/continue-interview", "null",
                    FallbackQuestionCall(ResponseUrl, ResponseTimeoutUrl), audio)
            /\ tasks' = tasks \cup {GenerateTask(h.inst, 1)}
            /\ logged' = LogFallback(FallbackQuestionCall(ResponseUrl, ResponseTimeoutUrl),
                                     h.inst)
            /\ UNCHANGED session
    /\ h' = Idle
    /\ UNCHANGED <<callSid, channel, transcribing, rest, ended>>
    /\ UNCHANGED ttsVars

\* The race is won by the 8 s timer: the fallback question is asked; the first
\* generateNextQuestion is still pending and a second one is started on the
\* same session instance.
ContinueInterviewTimeout(audio) ==
    /\ h.route = "/webhook/continue-interview"
    /\ h.pc = "race"
    /\ h.timer
    /\ SendCall("/webhook/continue-interview", "timeout",
            FallbackQuestionCall(ResponseUrl, ResponseTimeoutUrl), audio)
    /\ tasks' = tasks \cup {GenerateTask(h.inst, 2)}
    /\ logged' = LogFallback(FallbackQuestionCall(ResponseUrl, ResponseTimeoutUrl), h.inst)
    /\ h' = Idle
    /\ UNCHANGED <<callSid, channel, session, transcribing, rest, ended>>
    /\ UNCHANGED ttsVars

\* A detached generateNextQuestion gets its reply: a question is pushed on the
\* shared instance and saved.
TaskGenerate(t, reply) ==
    /\ t \in tasks
    /\ t.kind = "generate"
    /\ LET inst == IF reply = "questions" THEN addQuestion(t.inst) ELSE t.inst
       IN  /\ session' = IF reply = "questions"
                         THEN [session EXCEPT !.questions = inst.questions]
                         ELSE session
           /\ tasks' = (tasks \ {t}) \cup
                       (IF t.calls > 1 THEN {GenerateTask(inst, t.calls - 1)} ELSE {})
    /\ UNCHANGED <<callSid, channel, h, sent, next, transcribing, rest, ended>>
    /\ UNCHANGED <<ttsVars, logged>>

\* /webhook/response-timeout and /webhook/coaching-timeout: the question that
\* has no response is asked again; when there is none the session is completed.
NoSessionAsHangup(action, timeoutAction) == HangupCall(<<"tell-me-about-yourself">>)
NoSessionCall(action, timeoutAction) ==
    RecordingCall(<<"tell-me-about-yourself">>, action, timeoutAction)

\* responses.length < questions.length.
HasUnanswered(row) == Len(row.responses) < Len(row.questions)

TimeoutEvent(route, action, timeoutAction, audio) ==
    /\ Arrives(route)
    /\ IF ~findActiveByCallSid(callSid)
       THEN /\ SendCall(route, "error", NoSessionCall(action, timeoutAction), audio)
            /\ UNCHANGED <<session, ended>>
       ELSE IF HasUnanswered(session)
       THEN /\ SendCall(route, "question",
                    RecordingCall(<<"same-question">>, action, timeoutAction), audio)
            /\ UNCHANGED <<session, ended>>
       ELSE /\ completeSession(route)
            /\ SendCall(route, "end", HangupCall(<<"ended">>), audio)
    /\ UNCHANGED <<callSid, channel, h, tasks, transcribing, rest>>
    /\ UNCHANGED <<ttsVars, logged>>

ResponseTimeout(audio) ==
    TimeoutEvent("/webhook/response-timeout", ResponseUrl, ResponseTimeoutUrl, audio)

CoachingTimeout(audio) ==
    TimeoutEvent("/webhook/coaching-timeout", CoachingResponseUrl, CoachingTimeoutUrl, audio)

\* POST /webhook/continue-coaching up to its await of the reasoning service
\* inside generateNextCoachingQuestion, which nothing bounds.
ContinueCoaching(audio) ==
    /\ Arrives("/webhook/continue-coaching")
    /\ IF ~(findActiveByCallSid(callSid) /\ session.sessionType = "coaching")
       THEN /\ SendCall("/webhook/continue-coaching", "error",
                    RecordingCall(<<"fallback-pressure">>, CoachingResponseUrl,
                                          CoachingTimeoutUrl), audio)
            /\ UNCHANGED <<session, h, ended>>
       ELSE IF Enough(Load(session), CoachingCap)
       THEN /\ completeSession("/webhook/continue-coaching")
            /\ SendCall("/webhook/continue-coaching", "end",
                    HangupCall(<<"completed">>), audio)
            /\ UNCHANGED h
       ELSE /\ h' = [route |-> "/webhook/continue-coaching", pc |-> "await",
                     inst |-> Load(session), timer |-> FALSE]
            /\ UNCHANGED <<session, sent, next, ended>>
    /\ UNCHANGED <<callSid, channel, tasks, transcribing, rest>>
    /\ UNCHANGED <<ttsVars, logged>>

\* generateNextCoachingQuestion got its reply: a question is stored and asked;
\* an empty list or a failure gives null, and the session is completed.
ContinueCoachingReply(reply, audio) ==
    /\ h.route = "/webhook/continue-coaching"
    /\ h.pc = "await"
    /\ IF reply = "questions"
       THEN /\ session' = [session EXCEPT !.questions = addQuestion(h.inst).questions]
            /\ SendCall("/webhook/continue-coaching", "question",
                    RecordingCall(<<"next-question">>, CoachingResponseUrl,
                                          CoachingTimeoutUrl), audio)
            /\ UNCHANGED ended
       ELSE /\ completeSession("/webhook/continue-coaching")
            /\ SendCall("/webhook/continue-coaching", "end",
                    HangupCall(<<"completed">>), audio)
    /\ h' = Idle
    /\ UNCHANGED <<callSid, channel, tasks, transcribing, rest>>
    /\ UNCHANGED <<ttsVars, logged>>

\* POST /webhook/status with CallStatus completed or failed: the call is over
\* and its active session takes the status.
Status(callStatus) ==
    /\ channel = "phone"
    /\ StatusUrl \in next
    /\ next' = {}
    /\ session' = IF findActiveByCallSid(callSid)
                  THEN [session EXCEPT !.status = callStatus] ELSE session
    /\ ended' = IF findActiveByCallSid(callSid) /\ callStatus = "completed"
                THEN [by |-> "/webhook/status", questions |-> Len(session.questions),
                      responses |-> Len(session.responses), score |-> session.scores]
                ELSE ended
    /\ UNCHANGED <<callSid, channel, h, tasks, sent, transcribing, rest>>
    /\ UNCHANGED <<ttsVars, logged>>

\* --------------------------------------------------------- routes/sessions
SessionTypes == {"mock_interview", "coaching"}
RestQuestionIds == {1, 2}

\* The ids 1..n of n questions added in turn to a new session.
RECURSIVE AddQuestions(_, _)
AddQuestions(inst, n) == IF n = 0 THEN inst ELSE AddQuestions(addQuestion(inst), n - 1)

\* POST /api/sessions/start: the session is created; a mock interview gets the
\* five questions the reasoning service returns, each added in turn.
RestStart(sessionType, reply) ==
    /\ channel = "rest"
    /\ rest.pc = "idle"
    /\ session.status = None
    /\ session' = [Create(sessionType, NullStr) EXCEPT !.questions =
                      IF sessionType = "mock_interview" /\ reply = "questions"
                      THEN AddQuestions(NoInst, RestQuestionCount).questions
                      ELSE <<>>]
    /\ UNCHANGED <<callSid, channel, h, tasks, sent, next, transcribing, rest, ended>>
    /\ UNCHANGED <<ttsVars, logged>>

\* The guards of POST /:sessionId/response and POST /:sessionId/complete, in
\* their order: 404 for no session or another user's, 400 for a session that is
\* not active, 404 for a question the session does not hold; 0 when the
\* request goes on. own says that the session belongs to the requesting user.
RefusalWithoutStatus(kind, own, questionId) ==
    IF session.status = None \/ ~own THEN 404
    ELSE IF kind = "response"
            /\ ~\E i \in 1..Len(session.questions) : session.questions[i] = questionId
    THEN 404
    ELSE 0
Refusal(kind, own, questionId) ==
    IF session.status = None \/ ~own THEN 404
    ELSE IF session.status # "active" THEN 400
    ELSE IF kind = "response"
            /\ ~\E i \in 1..Len(session.questions) : session.questions[i] = questionId
    THEN 404
    ELSE 0

\* POST /api/sessions/:sessionId/response up to analyzeResponse: the session is
\* active and holds the question answered.
RestResponse(questionId) ==
    /\ channel = "rest"
    /\ rest.pc = "idle"
    /\ Refusal("response", TRUE, questionId) = 0
    /\ Len(session.responses) < MaxResponses
    /\ rest' = [pc |-> "analyze", inst |-> Load(session), questionId |-> questionId,
                refused |-> 0]
    /\ UNCHANGED <<callSid, channel, session, h, tasks, sent, next, transcribing, ended>>
    /\ UNCHANGED <<ttsVars, logged>>

\* The analysis is there: session.addResponse appends and saves; a failed
\* analysis answers 500 and stores nothing.
RestResponseReply(reply) ==
    /\ rest.pc = "analyze"
    /\ session' = IF ~analyzeResponse(reply).threw
                  THEN [session EXCEPT
                           !.responses = addResponse(rest.inst, rest.questionId).responses,
                           !.scores = analyzeResponse(reply).overall,
                           !.overalls = Append(rest.inst.overalls,
                                               analyzeResponse(reply).overall)]
                  ELSE session
    /\ rest' = NoRest
    /\ UNCHANGED <<callSid, channel, h, tasks, sent, next, transcribing, ended>>
    /\ UNCHANGED <<ttsVars, logged>>

\* POST /api/sessions/:sessionId/complete.
RestComplete ==
    /\ channel = "rest"
    /\ rest.pc = "idle"
    /\ Refusal("complete", TRUE, 0) = 0
    /\ completeSession("/api/sessions/complete")
    /\ UNCHANGED <<callSid, channel, h, tasks, sent, next, transcribing, rest>>
    /\ UNCHANGED <<ttsVars, logged>>

\* A request the guards refuse: the error is answered and nothing is written.
RestRefused(kind, own, questionId) ==
    /\ channel = "rest"
    /\ rest.pc = "idle"
    /\ Refusal(kind, own, questionId) # 0
    /\ rest' = [NoRest EXCEPT !.refused = Refusal(kind, own, questionId)]
    /\ UNCHANGED <<callSid, channel, session, h, tasks, sent, next, transcribing, ended>>
    /\ UNCHANGED <<ttsVars, logged>>

\* POST /:sessionId/response or /:sessionId/complete, from the owner of the
\* session or from another user.
RestKinds == {"response", "complete"}
RestRequest(kind, own, questionId) ==
    \/ RestRefused(kind, own, questionId)
    \/ own /\ kind = "response" /\ RestResponse(questionId)
    \/ own /\ kind = "complete" /\ RestComplete

\* POST /api/sessions/:sessionId/complete for the session of a call in
\* progress: the row is found by its id and belongs to the caller's user.
CompleteByApi ==
    /\ channel = "phone"
    /\ session.status = "active"
    /\ completeSession("/api/sessions/complete")
    /\ UNCHANGED <<callSid, channel, h, tasks, sent, next, transcribing, rest>>
    /\ UNCHANGED <<ttsVars, logged>>

\* The REST session API alone, refused requests included.
InitApi ==
    /\ apiKey = TRUE
    /\ useMurfAI = TRUE
    /\ TtsIdle
    /\ callSid = "CA1"
    /\ channel = "rest"
    /\ session = NoSession
    /\ h = Idle
    /\ tasks = {}
    /\ sent = NoSent
    /\ next = {}
    /\ transcribing = NullStr
    /\ rest = NoRest
    /\ ended = NoEnded
    /\ logged = NoLog

NextApi ==
    \/ \E t \in SessionTypes, r \in Replies : RestStart(t, r)
    \/ \E k \in RestKinds, own \in BOOLEAN, q \in RestQuestionIds : RestRequest(k, own, q)
    \/ \E r \in AnalysisReplies : RestResponseReply(r)

SpecApi == InitApi /\ [][NextApi]_vars

\* ------------------------------------------------------------ the call flow
Init ==
    /\ apiKey = TRUE
    /\ useMurfAI = TRUE
    /\ TtsIdle
    /\ callSid \in CallSids
    /\ channel \in {"phone", "rest"}
    /\ session = NoSession
    /\ h = Idle
    /\ tasks = {}
    /\ sent = NoSent
    /\ next = IF channel = "phone" THEN {VoiceUrl, StatusUrl} ELSE {}
    /\ transcribing = NullStr
    /\ rest = NoRest
    /\ ended = NoEnded
    /\ logged = NoLog

Next ==
    \/ \E a \in Audios : Voice(a)
    \/ \E i \in {"1", "2", "3", "9"}, a \in Audios : Menu(i, a)
    \/ \E i \in {"1", "2"} : MenuTimeout(i)
    \/ \E t \in tasks : TaskSetup(t)
    \/ \E a \in Audios : StartInterview(a)
    \/ \E r \in Replies, a \in Audios : StartInterviewReply(r, a)
    \/ \E a \in Audios : StartCoaching(a)
    \/ \E r \in Replies, a \in Audios : StartCoachingReply(r, a)
    \/ \E p \in Params, a \in Audios : Response(p, a)
    \/ \E p \in Params, a \in Audios : CoachingResponse(p, a)
    \/ \E a \in Audios : TranscribeCallback(a)
    \/ \E t \in tasks, f \in BOOLEAN : TaskFetch(t, f)
    \/ \E t \in tasks, r \in AnalysisReplies : TaskStore(t, r)
    \/ \E a \in Audios : ContinueInterview(a)
    \/ \E r \in Replies, a \in Audios : ContinueInterviewReply(r, a)
    \/ \E a \in Audios : ContinueInterviewTimeout(a)
    \/ \E t \in tasks, r \in Replies : TaskGenerate(t, r)
    \/ \E a \in Audios : ResponseTimeout(a)
    \/ \E a \in Audios : CoachingTimeout(a)
    \/ \E a \in Audios : ContinueCoaching(a)
    \/ \E r \in Replies, a \in Audios : ContinueCoachingReply(r, a)
    \/ \E s \in {"completed", "failed"} : Status(s)
    \/ \E s \in SessionTypes, r \in Replies : RestStart(s, r)
    \/ \E q \in RestQuestionIds : RestResponse(q)
    \/ \E r \in AnalysisReplies : RestResponseReply(r)
    \/ RestComplete

Spec == Init /\ [][Next]_vars

\* A phone call whose session may be completed through the API while the call
\* goes on; the prompts are spoken by the built-in voice.
InitNoSession ==
    /\ apiKey = TRUE
    /\ useMurfAI = TRUE
    /\ TtsIdle
    /\ callSid \in CallSids
    /\ channel = "phone"
    /\ session = NoSession
    /\ h = Idle
    /\ tasks = {}
    /\ sent = NoSent
    /\ next = {VoiceUrl, StatusUrl}
    /\ transcribing = NullStr
    /\ rest = NoRest
    /\ ended = NoEnded
    /\ logged = NoLog

NextNoSession ==
    \/ Voice(NoFile)
    \/ \E i \in {"1", "2"} : Menu(i, NoFile)
    \/ \E t \in tasks : TaskSetup(t)
    \/ StartInterview(NoFile)
    \/ \E r \in Replies : StartInterviewReply(r, NoFile)
    \/ StartCoaching(NoFile)
    \/ \E r \in Replies : StartCoachingReply(r, NoFile)
    \/ \E p \in Params : Response(p, NoFile)
    \/ \E p \in Params : CoachingResponse(p, NoFile)
    \/ TranscribeCallback(NoFile)
    \/ \E t \in tasks, f \in BOOLEAN : TaskFetch(t, f)
    \/ \E t \in tasks, r \in AnalysisReplies : TaskStore(t, r)
    \/ ContinueInterview(NoFile)
    \/ \E r \in Replies : ContinueInterviewReply(r, NoFile)
    \/ ContinueInterviewTimeout(NoFile)
    \/ \E t \in tasks, r \in Replies : TaskGenerate(t, r)
    \/ ResponseTimeout(NoFile)
    \/ CoachingTimeout(NoFile)
    \/ ContinueCoaching(NoFile)
    \/ \E r \in Replies : ContinueCoachingReply(r, NoFile)
    \/ \E s \in {"completed", "failed"} : Status(s)
    \/ CompleteByApi

SpecNoSession == InitNoSession /\ [][NextNoSession]_vars

\* ------------------------------------------- /webhook/menu, step by step
\* The menu handler with its 8-second guard timer as separate callbacks: the
\* handler up to its first await, the timer, and the handler's continuation. An
\* input that is no string (an array or object from the extended body parser)
\* makes userInput.toLowerCase throw when the timer is already set; the catch
\* cannot reach the timer, which is declared inside the try block. sendCalls
\* counts the handler's res.send calls; headers are sent with the first one.
MenuInputs == {"1", "2", "3", "9", "no-string"}
MenuRequest(input, pc, timer, sendCalls) ==
    [route |-> "/webhook/menu", pc |-> pc, inst |-> NoInst, timer |-> timer,
     input |-> input, sendCalls |-> sendCalls]
HoldPromptOf(input) ==
    IF input = "1"
    THEN ResponseCall(<<"hold-interview">>, Url("/webhook/start-interview", callSid), 1)
    ELSE ResponseCall(<<"hold-coaching">>, Url("/webhook/start-coaching", callSid), 1)

\* !res.headersSent.
HeadersNotSent(r) == r.sendCalls = 0

\* The handler from the request to its first await, or to its end: options 1
\* and 2 await the hold prompt, option 3 and the repeated menu are sent at once
\* (clearTimeout, then res.send), a thrown error enters the catch, which tests
\* the headers and awaits the prompt it will send.
MenuBegin(input) ==
    /\ Arrives("/webhook/menu")
    /\ IF input \in {"1", "2"}
       THEN /\ h' = MenuRequest(input, "render", TRUE, 0)
            /\ UNCHANGED <<sent, next>>
       ELSE IF input = "no-string"
       THEN /\ h' = MenuRequest(input, "catch-render", TRUE, 0)
            /\ UNCHANGED <<sent, next>>
       ELSE /\ h' = MenuRequest(input, "done", FALSE, 1)
            /\ IF input = "3"
               THEN Send("/webhook/menu", "representative", NoRender,
                         handleRepresentativeTransfer)
               ELSE Send("/webhook/menu", "repeat", NoRender, RepeatMenu)
    /\ UNCHANGED <<callSid, channel, session, tasks, transcribing, rest, ended>>
    /\ UNCHANGED <<ttsVars, logged>>

\* The guard timer fires: 'Please hold.' when no headers were sent.
MenuGuardTimer ==
    /\ h.route = "/webhook/menu"
    /\ h.timer
    /\ IF HeadersNotSent(h)
       THEN /\ Send("/webhook/menu", "timeout", NoRender, <<Say(<<"please-hold">>)>>)
            /\ h' = [h EXCEPT !.timer = FALSE, !.sendCalls = @ + 1]
       ELSE /\ h' = [h EXCEPT !.timer = FALSE]
            /\ UNCHANGED <<sent, next>>
    /\ UNCHANGED <<callSid, channel, session, tasks, transcribing, rest, ended>>
    /\ UNCHANGED <<ttsVars, logged>>

\* The prompt the handler awaited is rendered. On the main path the setup task
\* is detached, the timer cleared and the prompt sent when no headers were
\* sent. In the catch the prompt is sent: the test of the headers came before
\* the await, and a res.send after the timer's throws ERR_HTTP_HEADERS_SENT out
\* of the handler.
MenuResume(audio) ==
    /\ h.route = "/webhook/menu"
    /\ \/ /\ h.pc = "render"
          /\ Cardinality(tasks) < TaskLimit
          /\ tasks' = tasks \cup {SetupTask(IF h.input = "1" THEN "mock_interview"
                                            ELSE "coaching")}
          /\ IF HeadersNotSent(h)
             THEN /\ SendCall("/webhook/menu", "hold", HoldPromptOf(h.input), audio)
                  /\ h' = [h EXCEPT !.pc = "done", !.timer = FALSE, !.sendCalls = @ + 1]
             ELSE /\ h' = [h EXCEPT !.pc = "done", !.timer = FALSE]
                  /\ UNCHANGED <<sent, next>>
       \/ /\ h.pc = "catch-render"
          /\ IF HeadersNotSent(h)
             THEN /\ SendCall("/webhook/menu", "error",
                          ResponseCall(<<"let-me-start">>, MenuUrl, 1), audio)
                  /\ h' = [h EXCEPT !.pc = "done", !.sendCalls = @ + 1]
             ELSE /\ h' = [h EXCEPT !.pc = "threw", !.sendCalls = @ + 1]
                  /\ UNCHANGED <<sent, next>>
          /\ UNCHANGED tasks
    /\ UNCHANGED <<callSid, channel, session, transcribing, rest, ended>>
    /\ UNCHANGED <<ttsVars, logged>>

\* The request is over: the handler has returned and the timer is gone.
MenuEnd ==
    /\ h.route = "/webhook/menu"
    /\ h.pc = "done"
    /\ ~h.timer
    /\ h' = Idle
    /\ UNCHANGED <<callSid, channel, session, tasks, sent, next, transcribing, rest, ended>>
    /\ UNCHANGED <<ttsVars, logged>>

NextMenu ==
    \/ \E a \in Audios : Voice(a)
    \/ \E i \in MenuInputs : MenuBegin(i)
    \/ MenuGuardTimer
    \/ \E a \in Audios : MenuResume(a)
    \/ MenuEnd
    \/ \E t \in tasks : TaskSetup(t)
    \/ \E s \in {"completed", "failed"} : Status(s)

SpecMenu == InitNoSession /\ [][NextMenu]_vars

\* A mock-interview call whose turns are observed and whose caller answers every
\* prompt and stays on the line: no timeout, no status callback.
InitTurns ==
    /\ apiKey = TRUE
    /\ useMurfAI = TRUE
    /\ TtsIdle
    /\ callSid = "CA1"
    /\ channel = "phone"
    /\ session = NoSession
    /\ h = Idle
    /\ tasks = {}
    /\ sent = NoSent
    /\ next = {VoiceUrl, StatusUrl}
    /\ transcribing = NullStr
    /\ rest = NoRest
    /\ ended = NoEnded
    /\ logged = LogTurns

TurnHandlers ==
    \/ Voice(NoFile)
    \/ Menu("1", NoFile)
    \/ StartInterview(NoFile)
    \/ \E r \in Replies : StartInterviewReply(r, NoFile)
    \/ \E p \in Params : Response(p, NoFile)
    \/ TranscribeCallback(NoFile)
    \/ ContinueInterview(NoFile)
    \/ \E r \in Replies : ContinueInterviewReply(r, NoFile)
    \/ ContinueInterviewTimeout(NoFile)

TurnTasks ==
    \/ \E t \in tasks : TaskSetup(t)
    \/ \E t \in tasks, f \in BOOLEAN : TaskFetch(t, f)
    \/ \E t \in tasks, r \in AnalysisReplies : TaskStore(t, r)
    \/ \E t \in tasks, r \in Replies : TaskGenerate(t, r)

NextTurns == TurnHandlers \/ TurnTasks

SpecTurns == InitTurns /\ [][NextTurns]_vars

\* The transport requests what the last document names, the caller answers,
\* and every handler and background task that can take a step takes one; what
\* the reasoning service replies is left open.
FairSpecTurns ==
    /\ SpecTurns
    /\ WF_vars(TurnHandlers)
    /\ WF_vars(TranscribeCallback(NoFile))
    /\ WF_vars(TurnTasks)

\* The same call when the caller may also stay silent after a question: the
\* record verb's timeoutAction is requested.
NextTimeouts == NextTurns \/ ResponseTimeout(NoFile)

SpecTimeouts == InitTurns /\ [][NextTimeouts]_vars

\* The call flow with the log of the background processing observed and with
\* analyses of different scores.
InitInterview ==
    /\ apiKey = TRUE
    /\ useMurfAI = TRUE
    /\ TtsIdle
    /\ callSid \in CallSids
    /\ channel \in {"phone", "rest"}
    /\ session = NoSession
    /\ h = Idle
    /\ tasks = {}
    /\ sent = NoSent
    /\ next = IF channel = "phone" THEN {VoiceUrl, StatusUrl} ELSE {}
    /\ transcribing = NullStr
    /\ rest = NoRest
    /\ ended = NoEnded
    /\ logged = LogOn

NextInterview ==
    \/ Next
    \/ \E t \in tasks, r \in ScoredReplies : TaskStore(t, r)

SpecInterview == InitInterview /\ [][NextInterview]_vars

\* --------------------------------------------------------------- properties
\* C1: after every step of the webhook handlers, of the background
\* answer-processing task and of the REST response endpoint, the session stores
\* at most as many responses as questions.
C1_ResponsesWithinQuestions == Len(session.responses) <= Len(session.questions)

\* C2: /webhook/continue-interview completes a mock interview only when five
\* responses are stored; the number of questions alone never ends it.
C2_InterviewEndsOnFiveResponses ==
    ended.by = "/webhook/continue-interview" => ended.responses = MockInterviewCap

\* C3: /webhook/continue-coaching completes a coaching session only when three
\* responses are stored.
C3_CoachingEndsOnThreeResponses ==
    ended.by = "/webhook/continue-coaching" => ended.responses = CoachingCap

\* C4: when /webhook/continue-interview leaves its race without a question
\* (the 8 s timer fired, or generateNextQuestion returned null), the response
\* it sends records the answer to the pre-authored fallback question with
\* /webhook/response as its action and has no hangup; the handler is done while
\* the real question is still being generated in the background.
LeavesRaceWithoutQuestion ==
    /\ h.pc = "race"
    /\ h'.pc = "idle"
    /\ sent'.via \in {"timeout", "null"}

C4_FallbackQuestionOnLostRace ==
    [][LeavesRaceWithoutQuestion =>
          /\ sent'.route = "/webhook/continue-interview"
          /\ sent'.call.message = <<"fallback-leadership">>
          /\ FollowUp(sent'.doc) =
                 <<recordOptions(RecordingCall(<<>>, ResponseUrl, ResponseTimeoutUrl))>>
          /\ ResponseUrl \in next' \/ next' = {}
          /\ \E t \in tasks' : t.kind = "generate" /\ t.inst = h.inst]_vars

C4_Witness ==
    /\ sent.route = "/webhook/continue-interview"
    /\ sent.via = "timeout"
    /\ h.pc = "idle"
    /\ ResponseUrl \in next
    /\ \E t \in tasks : t.kind = "generate" /\ t.calls = 2

\* C5: an answer event is answered with the hold prompt, a gather whose action
\* is the continuation endpoint with the call's CallSid, and the processing task
\* is started only in the step that has sent it: no transcript is fetched, no
\* answer scored and no session written before.
AnswerRoutes == {"/webhook/response", "/webhook/coaching-response"}
ContinuationOf(route) ==
    IF route = "/webhook/response" THEN "/webhook/continue-interview"
    ELSE "/webhook/continue-coaching"

ProcessTaskStarted ==
    /\ \E t \in tasks' \ tasks : t.kind = "process"
    /\ ~ \E t \in tasks \ tasks' : t.kind = "process"

C5_HoldBeforeProcessing ==
    [][/\ sent'.route \in AnswerRoutes =>
              FollowUp(sent'.doc) =
                  <<Gather(Url(ContinuationOf(sent'.route), callSid), 1, <<>>)>>
       /\ ProcessTaskStarted =>
              /\ sent'.route \in AnswerRoutes
              /\ sent'.via = "hold"
              /\ h'.pc = "idle"
              /\ session' = session
              /\ \A t \in tasks' \ tasks :
                     /\ t.pc \in {"fetch", "analyze"}
                     /\ t.inst = Load(session)]_vars

C5_Witness ==
    /\ sent.route = "/webhook/response"
    /\ sent.via = "hold"
    /\ callSid = "CA2"
    /\ \E t \in tasks : t.kind = "process" /\ t.pc = "fetch"

\* C6: a webhook handler that awaits the reasoning service has a race timer
\* armed, so that it answers even if the service never replies.
C6_EveryAwaitIsRaced == h.pc # "idle" => h.timer

\* C8: generateAudioViaWebSocket never resolves with zero audio bytes, and
\* textToSpeech never saves an artifact for a stream that carried no audio chunk.
C8_NeverResolvesEmpty ==
    /\ promise.state = "resolved" => promise.bytes > 0
    /\ result.kind = "generated" => result.size > 0

\* C9: every call of generateAudioViaWebSocket eventually settles, whatever the
\* backend does, so textToSpeech never waits on it forever.
C9_EveryCallSettles == (tpc = "ws") ~> (tpc = "done")

\* C10: a textToSpeech request with useCache whose (text, voiceId, pitch, speed)
\* are those of the last successful request with useCache, with no sweep in
\* between, returns the cached artifact at the same URL and opens no connection.
C10_SecondCallHitsCache ==
    (/\ tpc = "done"
     /\ req.useCache
     /\ lastOk.ok
     /\ lastOk.useCache
     /\ lastOk.key = ReqKey(req))
        => /\ result.kind = "cached"
           /\ result.url = lastOk.url
           /\ result.opened = 0

C10_Witness ==
    /\ tpc = "done"
    /\ req.useCache
    /\ lastOk.ok
    /\ lastOk.useCache
    /\ lastOk.key = ReqKey(req)
    /\ result.kind = "cached"
    /\ files[result.url].old

\* ------------------------------------------------- claims: batchTextToSpeech
\* C11: in batchTextToSpeech the failure of one text's synthesis does not abort
\* the batch: every batch that has started goes through its remaining texts
\* and resolves.
C11_BatchResolves == (batch.pc = "running") ~> (batch.pc = "resolved")

\* C12: during batchTextToSpeech at most one synthesis connection is open at
\* any time.
C12_OneConnectionAtATime == OpenConnections <= 1

CommonMessages == <<<<"welcome">>, <<"thanks">>, <<"hold">>, <<"continue">>>>

\* preGenerateCommonMessages: nothing without an API key, else
\* batchTextToSpeech(commonMessages, { useCache: true }).
PreGenerate ==
    IF ~apiKey
    THEN BatchTextToSpeech("preGenerate", <<>>, TRUE)
    ELSE BatchTextToSpeech("preGenerate", CommonMessages, TRUE)

\* The artifact the warm-up writes for a phrase.
WarmArtifact(text) == <<ReqKey(BatchRequest(text, TRUE)), "wav">>

\* The holding prompt of /webhook/response and /webhook/coaching-response is
\* rendered (no batch is running).
HoldPrompt(continuation) ==
    /\ batch.pc = "idle"
    /\ Generate(HoldCall(<<"hold">>, continuation, callSid))

InitWarm ==
    /\ apiKey \in BOOLEAN
    /\ useMurfAI \in BOOLEAN
    /\ TtsIdle
    /\ FlowIdle

NextWarm ==
    \/ PreGenerate
    \/ SlotNext
    \/ GroupDone
    \/ BatchReturn
    \/ \E c \in {"/webhook/continue-interview", "/webhook/continue-coaching"} : HoldPrompt(c)
    \/ WsNext
    \/ Finish
    \/ batch.pc = "idle" /\ ClearCache
    \/ batch.pc = "idle" /\ TimePasses

SpecWarm == InitWarm /\ [][NextWarm]_vars

\* C14: whenever /webhook/response or /webhook/coaching-response builds its
\* holding prompt, the artifact of the phrase is taken from the Audio Cache and
\* no synthesis connection is opened; stated here for the states in which the
\* warm-up has written the artifact of the phrase and no sweep has removed it.
C14_HoldPromptOpensNoConnection ==
    (/\ render.fn # None
     /\ render.message = <<"hold">>
     /\ WarmArtifact(<<"hold">>) \in DOMAIN files) => ws = None

\* ------------------------------------------- claims: failures in the call flow
HasVerb(doc, verb) == \E i \in 1..Len(doc) : doc[i].verb = verb

\* The document keeps the call going: it gathers towards an endpoint or records,
\* and does not hang up.
KeepsCallGoing(doc) ==
    /\ ~HasVerb(doc, "hangup")
    /\ \E i \in 1..Len(doc) :
          /\ doc[i].verb \in {"gather", "record"}
          /\ doc[i].action # NullUrl

ProcessingFailed == logged.processing \in {"fetch-failed", "analysis-failed"}

\* C15: a failure of the background answer processing is confined to the task:
\* the step in which it fails changes neither the session nor what was sent,
\* and the response /webhook/continue-interview sends next has a record
\* instruction and no hangup.
C15_ProcessingFailureConfined ==
    [][/\ (~ProcessingFailed /\ ProcessingFailed') => UNCHANGED <<session, sent, next, h>>
       /\ (ProcessingFailed /\ sent' # sent /\ sent'.route = "/webhook/continue-interview")
             => HasVerb(sent'.doc, "record") /\ ~HasVerb(sent'.doc, "hangup")]_vars

\* C16: when the request of analyzeResponse fails, the answer being scored is
\* still appended to the session (with the scores of the fallback analysis).
C16_FailedAnalysisStillStored ==
    [][(/\ logged'.processing = "analysis-failed"
        /\ \E t \in tasks \ tasks' : t.kind = "process" /\ t.pc = "analyze")
          => Len(session'.responses) = Len(session.responses) + 1]_vars

NoSessionRoutes ==
    {"/webhook/response", "/webhook/continue-interview", "/webhook/response-timeout",
     "/webhook/coaching-response", "/webhook/continue-coaching", "/webhook/coaching-timeout"}

\* C17: a request to /webhook/response, /webhook/continue-interview,
\* /webhook/response-timeout or one of their coaching counterparts that finds no
\* active session for the call is answered at once with a document that keeps
\* the call going: the hold prompt gathering towards the continuation endpoint,
\* or a question with a record instruction; no hangup.
C17_NoSessionKeepsCallGoing ==
    [][(/\ h.pc = "idle"
        /\ ~findActiveByCallSid(callSid)
        /\ sent' # sent
        /\ sent'.route \in NoSessionRoutes)
          => /\ h'.pc = "idle"
             /\ sent'.via = "error"
             /\ KeepsCallGoing(sent'.doc)
             /\ sent'.route \in AnswerRoutes =>
                   sent'.doc[1].verb = "gather"
                   /\ sent'.doc[1].action = Url(ContinuationOf(sent'.route), callSid)
             /\ sent'.route \notin AnswerRoutes => HasVerb(sent'.doc, "record")]_vars

\* After the session was completed through the API, the timeout endpoint has
\* asked the generic question.
C17_Witness ==
    /\ sent.via = "error"
    /\ sent.route = "/webhook/response-timeout"
    /\ HasVerb(sent.doc, "record")
    /\ ended.by = "/api/sessions/complete"

ErrorBranchRoutes ==
    {"/webhook/voice", "/webhook/menu", "/webhook/start-interview", "/webhook/response",
     "/webhook/continue-interview"}

\* C18: what /voice, /menu, /start-interview, /response and /continue-interview
\* send from an error branch or a timeout branch has a gather or a record
\* instruction and no hangup.
C18_ErrorBranchesKeepCallGoing ==
    (sent.route \in ErrorBranchRoutes /\ sent.via \in {"error", "timeout", "null"})
        => KeepsCallGoing(sent.doc)

\* C19: when /webhook/continue-interview completes the interview, the overall
\* score of the session is the mean of the overall scores of its scored answers.
C19_FinalScoreIsMean ==
    [][(ended' # ended /\ ended'.by = "/webhook/continue-interview")
          => ended'.score * Len(session.overalls) = Sum(session.overalls)]_vars

\* The session instances of the generateNextQuestion calls that are awaiting
\* the reasoning service.
Generating ==
    (IF h.pc = "race" THEN {h.inst} ELSE {})
        \cup {t.inst : t \in {u \in tasks : u.kind = "generate"
                                            /\ ~Enough(u.inst, MockInterviewCap)}}

PreviousResponses(request) ==
    IF "previousResponses" \in DOMAIN request THEN request.previousResponses ELSE <<>>

\* C20: every request generateNextQuestion has with the reasoning service
\* carries the questions asked so far and the answers stored so far of the
\* session it was called with.
C20_RequestCarriesHistory ==
    \A inst \in Generating :
        /\ NextQuestionRequest(inst).previousQuestions = inst.questions
        /\ PreviousResponses(NextQuestionRequest(inst)) = inst.responses

\* ------------------------------------------------- status, voice and audio
\* A session status that no handler leaves again.
TerminalStatuses == {"completed", "failed"}

\* C22: a status callback with CallStatus failed gives the call's active
\* session the status failed, and a session that is completed or failed keeps
\* that status in every step of every handler and background task.
C22_TerminalStatusAbsorbing ==
    [][/\ (Status("failed") /\ findActiveByCallSid(callSid)) => session'.status = "failed"
       /\ session.status \in TerminalStatuses => session'.status = session.status]_vars

\* The voice of the voice_config frame: generateAudioViaWebSocket's own default
\* replaces, like textToSpeech's, only an undefined voiceId.
VoiceConfig(r) == VoiceOf(VoiceOf(r.voiceId))

\* C23: for a synthesis call of the Prompt Renderer, whose caller gave no
\* voice, the cache key computed and the voice_config sent on the open socket
\* use the configured default voice.
C23_RendererUsesDefaultVoice ==
    /\ (render.fn # None /\ tpc = "ws") =>
          ReqKey(req) = generateCacheKey(req.text, DefaultVoice, req.pitch, req.speed)
    /\ (render.fn # None /\ ws = "open") => VoiceConfig(req) = DefaultVoice

\* The decoded payload bytes received on the connection: what was pushed, and
\* the header the first chunk lost (firstChunk is cleared only there).
ReceivedBytes == Sum(audioChunks) + (IF firstChunk THEN 0 ELSE WavHeader)

\* C24: the bytes generateAudioViaWebSocket resolves with are all the decoded
\* payload bytes received up to the final frame.
C24_AudioIsConcatenation ==
    (ws = "closing" /\ promise.state = "resolved") => promise.bytes = ReceivedBytes

\* -------------------------------------------------------------- the menu
\* The kind of session each answer of /webhook/menu announces.
MenuKinds == {"mock_interview", "coaching"}
StartRouteOf(sessionType) ==
    IF sessionType = "mock_interview" THEN "/webhook/start-interview"
    ELSE "/webhook/start-coaching"

\* C26: a setup task is detached only by the menu's answers to options 1 and 2
\* and has the kind of the option; a session appears only through such a task
\* or through the start endpoint of its kind, which only those answers name;
\* the answers to option 3 and to any other input leave the session and the
\* tasks as they are, and the answer to other input gathers the selection
\* again at /webhook/menu.
C26_OnlyOptionsOneAndTwoCreate ==
    [][/\ \A t \in tasks' \ tasks :
             t.kind = "setup" =>
                /\ sent' # sent
                /\ sent'.route = "/webhook/menu"
                /\ sent'.via \in {t.sessionType, "timeout"}
                /\ t.sessionType \in MenuKinds
       /\ (channel = "phone" /\ session.status = None /\ session'.status # None) =>
             /\ session'.sessionType \in MenuKinds
             /\ \/ \E t \in tasks \ tasks' :
                      t.kind = "setup" /\ t.sessionType = session'.sessionType
                \/ /\ h'.route = StartRouteOf(session'.sessionType)
                   /\ h.route = h'.route
       /\ (h.route # h'.route /\ \E k \in MenuKinds : h'.route = StartRouteOf(k)) =>
             \E u \in next : u.path = h'.route
       /\ (sent' # sent /\ sent'.route = "/webhook/menu"
              /\ sent'.via \in {"representative", "repeat"}) =>
             /\ UNCHANGED <<session, tasks, ended, rest>>
             /\ sent'.via = "repeat" =>
                   /\ \E i \in DOMAIN sent'.doc :
                         sent'.doc[i].verb = "gather" /\ sent'.doc[i].action = MenuUrl
                   /\ MenuUrl \in next']_vars

\* The menu has been repeated for an input that is no option, and nothing is
\* stored.
C26_Witness ==
    /\ sent.route = "/webhook/menu"
    /\ sent.via = "repeat"
    /\ MenuUrl \in next
    /\ session = NoSession
    /\ tasks = {}

\* ------------------------------------------------------- question and answer
\* The place among the stored questions of the question a prompt speaks: a
\* start or continuation handler speaks the question it has just appended, a
\* timeout handler the one at the index of the number of responses; the canned
\* questions of the fallback and catch branches are stored nowhere (0).
AskedQuestion(s, row) ==
    IF s.call.message \in {<<"first-question">>, <<"next-question">>}
    THEN Len(row.questions)
    ELSE IF s.call.message = <<"same-question">> THEN Len(row.responses) + 1
    ELSE 0

\* C27: whenever a handler answers with a record instruction while the call
\* has an active session, the question it speaks is the stored question that
\* follows the stored responses, the one the next response is stored for.
C27_AskedIsCurrentQuestion ==
    [][(sent' # sent /\ HasVerb(sent'.doc, "record") /\ session'.status = "active") =>
          AskedQuestion(sent', session') = Len(session'.responses) + 1]_vars

\* ------------------------------------------------------------ the turns
\* const behavioral = [...] of getFallbackQuestions: the static fallback list.
FallbackListSize == 5

\* C21: of two fallback questions spoken at consecutive numbers of responses of
\* one call, the second differs from the first.
C21_FallbackRotates ==
    [][(/\ logged.fallback # NoFallback
        /\ logged'.fallback.count = logged.fallback.count + 1
        /\ logged.fallback.count < FallbackListSize) =>
          logged'.fallback.message # logged.fallback.message]_vars

\* C25: a mock interview with an active session whose caller answers every
\* prompt ends: the session is completed and the last response hangs up.
C25_InterviewEnds ==
    (session.status = "active") ~> (session.status = "completed" /\ HasVerb(sent.doc, "hangup"))

\* C28: the questions of the session are at most one more than the
\* 'Session state:' line of the last /webhook/continue-interview request counted.
C28_OneQuestionPerContinuation ==
    logged.state.seen => Len(session.questions) <= logged.state.totalQuestions + 1

\* C29: the stored responses never become fewer, and the responses stored
\* before a step are still there after it.
C29_NoResponseLost ==
    [][/\ Len(session'.responses) >= Len(session.responses)
       /\ SubSeq(session'.responses, 1, Len(session.responses)) = session.responses]_vars

\* C30: the session stores at most one response for each recording the caller
\* has submitted, though each recording reaches /webhook/response twice.
C30_OneResponsePerAnswer ==
    logged.turns => Len(session.responses) <= logged.answers

\* C31: the call has at most one session row, whichever way the setup task of
\* /webhook/menu interleaves with the find-or-create of a start handler, and the
\* first question a start handler speaks is stored in that row: whenever a start
\* handler that the reasoning service did not leave without questions answers,
\* the active session of the call holds a question.
StartRoutes == {"/webhook/start-interview", "/webhook/start-coaching"}
C31_FirstQuestionStored ==
    [][(/\ sent' # sent
        /\ sent'.route \in StartRoutes
        /\ ~(h.pc = "await" /\ sent'.via = "error"))
          => /\ session'.status = "active"
             /\ session'.callSid = callSid
             /\ Len(session'.questions) >= 1]_vars

\* C32: a cache lookup never returns a partly written file: what getCachedAudio
\* returns with cached: true has the length of a finished write of that file,
\* and a file is not returned with two different lengths (no sweep in between).
C32_LookupReturnsWholeArtifact ==
    /\ io.lookup.hit => <<io.lookup.name, io.lookup.bytes>> \in io.finished
    /\ \A a \in io.seen, b \in io.seen : a[1] = b[1] => a[2] = b[2]

\* C33: whenever the Prompt Renderer returns a document with a play verb, the
\* retrieval endpoint answers a GET of the played URL with the artifact's bytes
\* at that moment: the name passes the check and the file exists and is not empty.
PlayedIsServed ==
    /\ Spoken(twiml.doc) # <<>>
    /\ Head(Spoken(twiml.doc)).verb = "play"
    /\ ServeAudio(Head(Spoken(twiml.doc)).url) = 200
C33_PlayedUrlIsServed ==
    [][(twiml' # twiml /\ twiml'.outcome = "played") => PlayedIsServed']_vars

\* C34: when clearCache(d) has returned, no file older than d days is left,
\* every file that was not older than d days is still there with its content,
\* and deletedCount is the number of files removed.
AgeAtSweep(n) == io.now - io.sweep.written[n]
C34_SweepRemovesExactlyTheOld ==
    io.sweep.pc = "returned" =>
        LET before == io.sweep.before
            d == io.sweep.olderThanDays
        IN  /\ DOMAIN files \subseteq DOMAIN before
            /\ \A n \in DOMAIN files : AgeAtSweep(n) <= d
            /\ \A n \in DOMAIN before :
                  AgeAtSweep(n) <= d => n \in DOMAIN files /\ files[n] = before[n]
            /\ io.sweep.deletedCount = Cardinality(DOMAIN before \ DOMAIN files)

\* A sweep that removed one file and kept one whose age is exactly d days.
C34_Witness ==
    /\ io.sweep.pc = "returned"
    /\ io.sweep.deletedCount = 1
    /\ io.sweep.olderThanDays > 0
    /\ \E n \in DOMAIN files : AgeAtSweep(n) = io.sweep.olderThanDays

\* C35: the /webhook/menu handler sends exactly one response per request,
\* whichever of the guard timer, the normal send and the catch's send comes
\* first: res.send is never called twice for a request, and when the handler
\* has returned and the timer is gone it has been called once.
C35_MenuRespondsOnce ==
    h.route = "/webhook/menu" =>
        /\ h.sendCalls <= 1
        /\ (h.pc = "done" /\ ~h.timer) => h.sendCalls = 1

\* C36: a step of /webhook/response-timeout or /webhook/coaching-timeout leaves
\* the session's questions and responses as they are; with fewer responses than
\* questions it asks the stored question at the index of the number of
\* responses again, with a record instruction, and the session stays active; it
\* completes the session or hangs up only when the counts are equal, and then
\* it does both.
TimeoutStep == \E a \in Audios : ResponseTimeout(a) \/ CoachingTimeout(a)
C38_RefusedRequestsChangeNothing ==
    [][/\ \A k \in RestKinds, own \in BOOLEAN, q \in RestQuestionIds :
            (/\ RestRequest(k, own, q)
             /\ \/ session.status # "active"
                \/ ~own
                \/ k = "response" /\ ~\E i \in 1..Len(session.questions) :
                                           session.questions[i] = q)
              => /\ rest'.refused \in {400, 404}
                 /\ session' = session
                 /\ ended' = ended
       /\ (session' # session /\ session.status # None) => session.status = "active"]_vars

\* A response refused with 400 on a completed session that holds responses.
C38_Witness ==
    /\ rest.refused = 400
    /\ session.status = "completed"
    /\ Len(session.responses) >= 1

\* C39: the string generateCacheKey hashes keeps the four fields apart: two
\* calls with the same key have the same text, voice id, pitch and speed.
C39_KeySeparatesFields ==
    [][(lastOk.ok /\ lastOk'.ok /\ lastOk'.key = lastOk.key)
          => /\ req'.text = req.text
             /\ VoiceOf(req'.voiceId) = VoiceOf(req.voiceId)
             /\ req'.pitch = req.pitch
             /\ req'.speed = req.speed]_vars


====
